---- MODULE Spec2Model ----
(***************************************************************************)
(* Model of the fenyr-ts trading engine: the synchronous RiskEngine        *)
(* (src/src/engine/risk-engine.ts) and the event-driven HFTEngineV3        *)
(* (src/src/engine/hft-engine-v3.ts) with the parts of the agent layer     *)
(* (src/src/engine/stream-engine.ts) and of the market-data feed           *)
(* (src/src/services/market-data.ts) that drive it.                        *)
(*                                                                         *)
(* Units.  Money (equity, PnL) is in whole USD.  Order and position sizes  *)
(* are in units of 0.01 BTC, so maxPositionSize 0.05 is 5.  maxDrawdown is *)
(* in percent, so 0.05 is 5 and 0.15 is 15.  Confidence is in hundredths.  *)
(* riskPerTrade is in millionths, so that the order size the engine        *)
(* computes, riskPerTrade * 10000 BTC, is riskPerTrade units of 0.01 BTC.  *)
(* Time is in milliseconds.  All values used are small integers, for which *)
(* the integer comparisons below agree with the IEEE-754 comparisons of    *)
(* the source.                                                             *)
(***************************************************************************)
EXTENDS Integers, Sequences, FiniteSets, TLC

\* ------------------------------------------------------------------------
\* Bounds of the model
\* ------------------------------------------------------------------------
MaxCalls == 4        \* RiskEngine operations performed in one run of SpecRisk
MaxTicks == 2        \* price frames the feed delivers in one run
MaxDecisions == 1    \* decisions the lead coordinator publishes in one run
MaxAdvances == 2     \* steps of the wall clock in one run
MaxInFlight == 2     \* event handlers suspended at an await at the same time
MaxFailures == 8     \* sockets of the feed that fail without an open in between
MaxAgentCycles == 3  \* analysis cycles one agent begins in one run
MaxLeadCycles == 2   \* calls of makeDecision in one run
MaxCapacity == 5     \* largest capacity a RingBuffer is constructed with
MaxPushes == 6       \* items pushed into a RingBuffer between two clears
MaxOpens == 2        \* sockets of a WeexWebSocket that reach 'open' in one run

\* ------------------------------------------------------------------------
\* RiskEngine (risk-engine.ts)
\* ------------------------------------------------------------------------
VARIABLES
    risk_config,               \* RiskEngine.config
    risk_state,                \* RiskEngine.state (AccountState)
    isCircuitBreakerTripped,   \* RiskEngine.isCircuitBreakerTripped
    tripReason,                \* RiskEngine.tripReason
    lastCall,                  \* history: the last RiskEngine operation, its arguments and result
    nCalls                     \* history: number of RiskEngine operations performed

riskVars == <<risk_config, risk_state, isCircuitBreakerTripped, tripReason>>

\* ------------------------------------------------------------------------
\* HFTEngineV3 (hft-engine-v3.ts) and what drives it
\* ------------------------------------------------------------------------
VARIABLES
    phase,              \* position of start(): "new", "starting", "syncing", "ready"
    isRunning,          \* HFTEngineV3.isRunning
    priceHistory,       \* HFTEngineV3.priceHistory
    currentPosition,    \* HFTEngineV3.currentPosition (NoPos for null)
    lastExecutionTime,  \* HFTEngineV3.lastExecutionTime
    agents_config,      \* ParallelAgentSystem.config
    lastDecision,       \* LeadCoordinator.lastDecision (NoDecision for null)
    wsLastPrice,        \* MarketDataService.state.lastPrice
    now,                \* Date.now()
    handlers,           \* the event handlers suspended at an await
    orders,             \* history: the placeOrder calls made, in order
    lastEval,           \* history: the last run of evaluateAndExecute
    nTicks,             \* history: price frames delivered
    nDecisions,         \* history: decisions published
    nAdvances,          \* history: clock steps taken
    ticksHandled        \* history: the prices onTick has handled while running, in order

hftVars == <<phase, isRunning, priceHistory, currentPosition, lastExecutionTime, agents_config,
             lastDecision, wsLastPrice, now, handlers, orders, lastEval,
             nTicks, nDecisions, nAdvances, ticksHandled>>

\* ------------------------------------------------------------------------
\* MarketDataService (market-data.ts): the connection of the feed
\* ------------------------------------------------------------------------
VARIABLES
    feed_ws,            \* MarketDataService.ws: "none", "connecting", "open", "errored",
                        \* "closing" (close() called by stop()), "closed", "terminated"
    feed_isConnected,   \* MarketDataService.isConnected
    failCount,          \* MarketDataService.failCount
    reconnectTimeout,   \* MarketDataService.reconnectTimeout: 0 for null, the delay in ms
                        \* of a pending timer, -1 for the handle of a cleared timer
    pingInterval,       \* MarketDataService.pingInterval is set
    linkSevered,        \* the "Market Data Link Severed" message has been logged
    lastFeedEvent,      \* history: what the feed did last
    consecFails,        \* history: sockets that failed since the last successful open
    feedStopped,        \* history: stop() has been called
    lastFrame,          \* history: the last frame the message listener was called with
    feedTicks,          \* history: the prices of the 'tick' events emitted, in order
    feedSent            \* history: the last message the feed sent on its socket

feedVars == <<feed_ws, feed_isConnected, failCount, reconnectTimeout, pingInterval, linkSevered,
              lastFeedEvent, consecFails, feedStopped, lastFrame, feedTicks, feedSent>>

\* ------------------------------------------------------------------------
\* ParallelAgentSystem (stream-engine.ts): the agents and their coordinator
\* ------------------------------------------------------------------------
VARIABLES
    agents,             \* per IndependentAgent: isRunning, interval (set or null), lastReport
    agentCycles,        \* per agent: the analyze() calls suspended at an await
    nAgentCycles,       \* history: per agent, the analyze() calls begun
    lead,               \* LeadCoordinator: isRunning, decisionInterval, the warm-up timer
    latestReports,      \* LeadCoordinator.latestReports (NoReport for an absent key)
    leadCycles,         \* the makeDecision() calls suspended at the await of callLeadLLM
    nLeadCycles,        \* history: the makeDecision() calls begun
    leadLog             \* history: what makeDecision() did last, and with how many reports

agentVars == <<agents, agentCycles, nAgentCycles, lead, latestReports, leadCycles, nLeadCycles,
               leadLog>>

\* ------------------------------------------------------------------------
\* CoordinatorAgent (agents/coordinator.ts): one runTeamAnalysis call
\* ------------------------------------------------------------------------
VARIABLES
    team_pc,            \* position of runTeamAnalysis: "idle", "market", "sentiment", "risk",
                        \* "upload", "executor", "done"
    team_decisions,     \* its local decisions, by agent name (NoVote for an absent key)
    team_consensus,     \* its local consensus (NoConsensus before it is computed)
    executorCalls       \* history: calls of executor.analyze

teamVars == <<team_pc, team_decisions, team_consensus, executorCalls>>

\* ------------------------------------------------------------------------
\* RingBuffer and WeexWebSocket (ws/websocket.ts)
\* ------------------------------------------------------------------------
VARIABLES
    ring,               \* a RingBuffer: buffer, head, tail, size, capacity
    ringArg,            \* history: the capacity it was constructed with
    ringPushed,         \* history: the items pushed since the last clear(), in order
    wws_ws,             \* WeexWebSocket.ws: "none", "connecting", "open", "errored", "closed"
    wws_isConnected,    \* WeexWebSocket.isConnected
    reconnectAttempts,  \* WeexWebSocket.reconnectAttempts
    wws_timers,         \* history: the interval timers of startPing and the timeouts of
                        \* attemptReconnect that are alive, and whether the timer whose
                        \* handle pingInterval holds is one of them
    wws_opens           \* history: sockets that reached 'open'

ringVars == <<ring, ringArg, ringPushed>>
wwsVars == <<wws_ws, wws_isConnected, reconnectAttempts, wws_timers, wws_opens>>

\* ------------------------------------------------------------------------
\* The exchange
\* ------------------------------------------------------------------------
VARIABLES
    exchangePosition    \* the position getPositions() reports for the symbol

restVars == <<teamVars, ringVars, wwsVars, exchangePosition>>

AccountFields == {"equity", "initialEquity", "dailyPnL", "peakEquity", "openOrdersCount", "positionSize"}

Abs(x) == IF x < 0 THEN -x ELSE x

Max(a, b) == IF a > b THEN a ELSE b

\* constructor(config, initialEquity = 1000)
DefaultInitialEquity == 1000

NewAccountState(initialEquity) ==
    [equity |-> initialEquity, initialEquity |-> initialEquity, dailyPnL |-> 0,
     peakEquity |-> initialEquity, openOrdersCount |-> 0, positionSize |-> 0]

\* The configuration HFTEngineV3 builds (minEquity is its minBalance argument).
HftRiskConfig(minBalance) ==
    [maxDailyLoss |-> 200, minEquity |-> minBalance, maxDrawdown |-> 15, maxPositionSize |-> 5]

\* The configuration of the drawdown scenario: maxDrawdown 0.05.
ScenarioRiskConfig ==
    [maxDailyLoss |-> 200, minEquity |-> 700, maxDrawdown |-> 5, maxPositionSize |-> 5]

\* { ...this.state, ...newState }
MergeState(st, newState) ==
    [f \in AccountFields |-> IF f \in DOMAIN newState THEN newState[f] ELSE st[f]]

\* A variant that forgets the peak tracking.
UpdateStateNoPeak(st, newState) ==
    LET m == MergeState(st, newState)
    IN  [m EXCEPT !.dailyPnL = m.equity - m.initialEquity]

\* A variant that forgets to recompute the PnL.
UpdateStateNoPnL(st, newState) ==
    LET m == MergeState(st, newState)
    IN  IF m.equity > m.peakEquity THEN [m EXCEPT !.peakEquity = m.equity] ELSE m

\* updateState(newState): merge, track the peak, recompute the PnL.
UpdateStateResult(st, newState) ==
    LET m == MergeState(st, newState)
        p == IF m.equity > m.peakEquity THEN [m EXCEPT !.peakEquity = m.equity] ELSE m
    IN  [p EXCEPT !.dailyPnL = p.equity - p.initialEquity]

\* (peakEquity - equity) / peakEquity > maxDrawdown, maxDrawdown in percent.
\* A zero peak gives NaN or an infinity in the source: NaN and -Infinity
\* compare false, +Infinity compares true.
DrawdownExceeds(st, cfg) ==
    IF st.peakEquity > 0 THEN (st.peakEquity - st.equity) * 100 > cfg.maxDrawdown * st.peakEquity
    ELSE IF st.peakEquity < 0 THEN (st.peakEquity - st.equity) * 100 < cfg.maxDrawdown * st.peakEquity
    ELSE st.equity < 0

\* const newSize = side === 'buy' ? positionSize + size : positionSize - size
ProjectedSize(st, side, size) ==
    IF side = "buy" THEN st.positionSize + size ELSE st.positionSize - size

ReasonDailyLoss == "Daily Loss Limit Hit"
ReasonStoploss == "Hard Stoploss Limit"
ReasonDrawdown == "Max Drawdown Hit"

\* A variant that evaluates the trip conditions before the position cap.
CanTradeTripFirst(cfg, st, tripped, reason, side, size) ==
    IF tripped THEN [ret |-> FALSE, tripped |-> tripped, reason |-> reason]
    ELSE IF st.dailyPnL < -cfg.maxDailyLoss
        THEN [ret |-> FALSE, tripped |-> TRUE, reason |-> ReasonDailyLoss]
    ELSE IF st.equity < cfg.minEquity
        THEN [ret |-> FALSE, tripped |-> TRUE, reason |-> ReasonStoploss]
    ELSE IF DrawdownExceeds(st, cfg)
        THEN [ret |-> FALSE, tripped |-> TRUE, reason |-> ReasonDrawdown]
    ELSE IF Abs(ProjectedSize(st, side, size)) > cfg.maxPositionSize
        THEN [ret |-> FALSE, tripped |-> tripped, reason |-> reason]
    ELSE [ret |-> TRUE, tripped |-> tripped, reason |-> reason]

\* A variant without the circuit-breaker check at the top.
CanTradeNoLatch(cfg, st, tripped, reason, side, size) ==
    IF Abs(ProjectedSize(st, side, size)) > cfg.maxPositionSize
        THEN [ret |-> FALSE, tripped |-> tripped, reason |-> reason]
    ELSE IF st.dailyPnL < -cfg.maxDailyLoss
        THEN [ret |-> FALSE, tripped |-> TRUE, reason |-> ReasonDailyLoss]
    ELSE IF st.equity < cfg.minEquity
        THEN [ret |-> FALSE, tripped |-> TRUE, reason |-> ReasonStoploss]
    ELSE IF DrawdownExceeds(st, cfg)
        THEN [ret |-> FALSE, tripped |-> TRUE, reason |-> ReasonDrawdown]
    ELSE [ret |-> TRUE, tripped |-> tripped, reason |-> reason]

\* A variant without the drawdown check.
CanTradeNoDrawdown(cfg, st, tripped, reason, side, size) ==
    IF tripped THEN [ret |-> FALSE, tripped |-> tripped, reason |-> reason]
    ELSE IF Abs(ProjectedSize(st, side, size)) > cfg.maxPositionSize
        THEN [ret |-> FALSE, tripped |-> tripped, reason |-> reason]
    ELSE IF st.dailyPnL < -cfg.maxDailyLoss
        THEN [ret |-> FALSE, tripped |-> TRUE, reason |-> ReasonDailyLoss]
    ELSE IF st.equity < cfg.minEquity
        THEN [ret |-> FALSE, tripped |-> TRUE, reason |-> ReasonStoploss]
    ELSE [ret |-> TRUE, tripped |-> tripped, reason |-> reason]

\* canTrade(side, size, price): the returned value and the breaker afterwards.
\* price is not read by the source.
CanTradeResult(cfg, st, tripped, reason, side, size) ==
    IF tripped THEN [ret |-> FALSE, tripped |-> tripped, reason |-> reason]
    ELSE IF Abs(ProjectedSize(st, side, size)) > cfg.maxPositionSize
        THEN [ret |-> FALSE, tripped |-> tripped, reason |-> reason]
    ELSE IF st.dailyPnL < -cfg.maxDailyLoss
        THEN [ret |-> FALSE, tripped |-> TRUE, reason |-> ReasonDailyLoss]
    ELSE IF st.equity < cfg.minEquity
        THEN [ret |-> FALSE, tripped |-> TRUE, reason |-> ReasonStoploss]
    ELSE IF DrawdownExceeds(st, cfg)
        THEN [ret |-> FALSE, tripped |-> TRUE, reason |-> ReasonDrawdown]
    ELSE [ret |-> TRUE, tripped |-> tripped, reason |-> reason]

\* getStatus()
getStatus ==
    [tripped |-> isCircuitBreakerTripped, reason |-> tripReason,
     equity |-> risk_state.equity, pnl |-> risk_state.dailyPnL]

\* ---- HFTEngineV3: constants and pure parts ------------------------------
minConf == 60                 \* private minConf = 0.6
decaySeconds == 60            \* private decaySeconds = 60
CooldownMs == 5000            \* Date.now() - lastExecutionTime < 5000
HistoryLimit == 100           \* if (priceHistory.length > 100) shift()
RsiPeriod == 14               \* calculateRSI(priceHistory, 14)
DefaultMinBalance == 700      \* constructor minBalance = 700
DefaultRiskPerTrade == 20000  \* ParallelAgentSystem config riskPerTrade: 0.02
MaxRiskPerTrade == 50000      \* Math.min(0.05, decision.positionSize)
DefaultPositionSize == 10000  \* decision.positionSize || 0.01
DefaultConfidence == 50       \* decision.confidence || 0.5

NoPos == [side |-> "flat", size |-> 0]

NoDecision == [action |-> "none", confidence |-> 0, positionSize |-> 0, timestamp |-> 0]

RECURSIVE SumGains(_, _, _)
\* Sum of the positive (sign = 1) or negated negative (sign = -1) deltas
\* prices[i] - prices[i-1] for i in from..Len(prices).
SumGains(prices, from, sign) ==
    IF from > Len(prices) THEN 0
    ELSE LET d == prices[from] - prices[from - 1]
         IN  (IF sign * d > 0 THEN sign * d ELSE 0) + SumGains(prices, from + 1, sign)

\* calculateRSI(prices, period), in hundredths: 50 with too little history,
\* 100 without losses, else 100 - 100 / (1 + avgGain / avgLoss) rounded to two
\* decimals, which is 100 * gain / (gain + loss).
calculateRSI(prices, period) ==
    IF Len(prices) < period + 1 THEN 5000
    ELSE LET from == Len(prices) - period + 1
             gain == SumGains(prices, from, 1)
             loss == SumGains(prices, from, -1)
         IN  IF loss = 0 THEN 10000
             ELSE (2 * 10000 * gain + (gain + loss)) \div (2 * (gain + loss))

\* A variant of the dead-man switch that never looks at the age.
EffectiveAdvisoryNoDecay(decision, t) ==
    IF decision = NoDecision THEN [confidence |-> 0, action |-> "hold"]
    ELSE [confidence |-> decision.confidence, action |-> decision.action]

\* Dead man's switch: the confidence and action an evaluation works with.
EffectiveAdvisory(decision, t) ==
    IF decision = NoDecision THEN [confidence |-> 0, action |-> "hold"]
    ELSE IF t - decision.timestamp > decaySeconds * 1000 THEN [confidence |-> 0, action |-> "hold"]
    ELSE [confidence |-> decision.confidence, action |-> decision.action]

\* hftConfirm: the local confirmation of the advisory.
HftConfirm(eff, localRSI) ==
    IF eff.action = "close" THEN TRUE
    ELSE IF eff.confidence > 70 THEN TRUE
    ELSE \/ (eff.action = "long" /\ localRSI < 7000)
         \/ (eff.action = "short" /\ localRSI > 3000)

\* A variant that reverses a position in one evaluation: close, then open.
OrderPlanCloseThenOpen(action, pos, riskPerTrade) ==
    IF action = "long" /\ pos.side = "flat"
        THEN <<[side |-> "buy", size |-> riskPerTrade, reason |-> "AI_LONG"]>>
    ELSE IF action = "long" /\ pos.side = "short"
        THEN <<[side |-> "buy", size |-> pos.size, reason |-> "AI_CLOSE"],
               [side |-> "buy", size |-> riskPerTrade, reason |-> "AI_LONG"]>>
    ELSE IF action = "short" /\ pos.side = "flat"
        THEN <<[side |-> "sell", size |-> riskPerTrade, reason |-> "AI_SHORT"]>>
    ELSE IF action = "short" /\ pos.side = "long"
        THEN <<[side |-> "sell", size |-> pos.size, reason |-> "AI_CLOSE"],
               [side |-> "sell", size |-> riskPerTrade, reason |-> "AI_SHORT"]>>
    ELSE IF action = "close" /\ pos # NoPos
        THEN <<[side |-> IF pos.side = "long" THEN "sell" ELSE "buy", size |-> pos.size,
                reason |-> "AI_CLOSE"]>>
    ELSE <<>>

\* The executeOrder calls of one evaluation that passed the confidence, the
\* confirmation and the cooldown tests: the if / else-if chain. The size of
\* an AI_LONG or AI_SHORT order is config.riskPerTrade * 10000.
OrderPlan(action, pos, riskPerTrade) ==
    IF action = "long" /\ (pos = NoPos \/ pos.side = "short")
        THEN <<[side |-> "buy", size |-> riskPerTrade, reason |-> "AI_LONG"]>>
    ELSE IF action = "short" /\ (pos = NoPos \/ pos.side = "long")
        THEN <<[side |-> "sell", size |-> riskPerTrade, reason |-> "AI_SHORT"]>>
    ELSE IF action = "close" /\ pos # NoPos
        THEN <<[side |-> IF pos.side = "long" THEN "sell" ELSE "buy", size |-> pos.size,
                reason |-> "AI_CLOSE"]>>
    ELSE <<>>

\* A variant that takes every buy for an opening long and every sell for an
\* opening short.
WeexSideIgnoresPosition(side, pos) ==
    IF side = "buy" THEN 1 ELSE 3

\* weexSide of executeOrder: 1 open long, 2 close short, 3 open short, 4 close long.
WeexSide(side, pos) ==
    IF side = "buy" THEN (IF pos.side = "short" THEN 2 ELSE 1)
    ELSE (IF pos.side = "long" THEN 4 ELSE 3)

\* The optimistic position after a fill with the given side code.
PositionAfterFill(weexSide, size, pos) ==
    IF weexSide = 1 THEN [side |-> "long", size |-> size]
    ELSE IF weexSide = 3 THEN [side |-> "short", size |-> size]
    ELSE IF weexSide = 2 \/ weexSide = 4 THEN NoPos
    ELSE pos

RECURSIVE RunOrders(_, _, _, _, _)
\* The executeOrder calls of a plan, up to the first one that reaches
\* placeOrder: the risk gate may reject (and trip the breaker) on the way.
RunOrders(plan, st, pos, tripped, reason) ==
    IF plan = <<>> THEN [tripped |-> tripped, reason |-> reason, placed |-> <<>>, rest |-> <<>>]
    ELSE LET o == Head(plan)
             r == CanTradeResult(risk_config, st, tripped, reason, o.side, o.size)
         IN  IF r.ret
             THEN [tripped |-> r.tripped, reason |-> r.reason,
                   placed |-> <<[side |-> o.side, size |-> o.size, weexSide |-> WeexSide(o.side, pos)]>>,
                   rest |-> Tail(plan)]
             ELSE RunOrders(Tail(plan), st, pos, r.tripped, r.reason)

\* A variant that never evicts.
PushPriceNoEviction(history, price) ==
    Append(history, price)

\* priceHistory.push(price); if (priceHistory.length > 100) priceHistory.shift()
PushPrice(history, price) ==
    LET h == Append(history, price)
    IN  IF Len(h) > HistoryLimit THEN Tail(h) ELSE h

\* FullParallelEngine.generateSignal starts from `let signal = 0` and adds
\* nothing to it for what HFTEngineV3 has at hand in the runs below: no
\* depth snapshot (the order book imbalance is 0) and fewer than 10 prices
\* (the momentum, RSI and EMA terms are added from 10, 15 and 20 prices on).
EmptySignal == 0

\* biasedSignal = signal + config.biasStrength * 0.15, in ten-thousandths
\* (biasStrength is in hundredths).
BiasedSignal(signal, config) == signal + 15 * config.biasStrength

\* ParallelAgentSystem.updateConfigFromDecision
updateConfigFromDecision(config, decision) ==
    [bias |-> IF decision.action = "long" THEN "bullish"
              ELSE IF decision.action = "short" THEN "bearish" ELSE "neutral",
     biasStrength |-> IF decision.action = "long" THEN decision.confidence
                      ELSE IF decision.action = "short" THEN -decision.confidence ELSE 0,
     riskPerTrade |-> IF decision.positionSize < MaxRiskPerTrade THEN decision.positionSize
                      ELSE MaxRiskPerTrade,
     signalThreshold |-> IF decision.confidence > 70 THEN 20 ELSE 35]

\* LeadCoordinator.makeDecision: the decision built from the parsed answer of
\* the language model (0 stands for a missing or zero field).
BuildDecision(answer, t) ==
    [action |-> IF answer.action = "" THEN "hold" ELSE answer.action,
     confidence |-> IF answer.confidence = 0 THEN DefaultConfidence ELSE answer.confidence,
     positionSize |-> IF answer.positionSize = 0 THEN DefaultPositionSize ELSE answer.positionSize,
     timestamp |-> t]

\* ---- HFTEngineV3: inputs ------------------------------------------------
\* Date.now() when the engine is constructed (lastExecutionTime starts at 0,
\* far in the past).
StartTime == 100000
TimeSteps == {4000, 61000}
Prices == {88000, 88010}
\* The price of the first frame (which of the prices comes first makes no
\* difference to the engine).
FirstPrice == CHOOSE p \in Prices : \A q \in Prices : p <= q
MinBalances == {DefaultMinBalance}
\* Parsed answers of the language model: a confident one with positionSize
\* 0.02, three confident ones with a tiny position size, one at exactly
\* minConf, and the empty object {}.
LlmAnswers ==
    {[action |-> "long", confidence |-> 80, positionSize |-> 20000],
     [action |-> "long", confidence |-> 80, positionSize |-> 2],
     [action |-> "short", confidence |-> 80, positionSize |-> 2],
     [action |-> "close", confidence |-> 80, positionSize |-> 2],
     [action |-> "long", confidence |-> 60, positionSize |-> 2],
     [action |-> "", confidence |-> 0, positionSize |-> 0]}
\* What getPositions() answers for the symbol: no position or an open one.
ExchangePositions == {NoPos, [side |-> "long", size |-> 3], [side |-> "short", size |-> 2]}

Slots == 1..MaxInFlight

\* A handler: where it is suspended, which event it serves (kind, and the
\* number of the tick or of the decision), the decision it was called with
\* (kept while it waits for a ticker), the locals of executeOrder, what is
\* left of its evaluation, and as history the index of its pending order.
IdleHandler ==
    [pc |-> "idle", kind |-> "none", event |-> 0, decision |-> NoDecision,
     weexSide |-> 0, size |-> 0, rest |-> <<>>, order |-> 0]

\* How the advisory an evaluation is called with looks at time t.
AdvisoryAge(decision, t) ==
    IF decision = NoDecision THEN "absent"
    ELSE IF t - decision.timestamp > 60000 THEN "stale"
    ELSE "fresh"

NoEval == [advisory |-> "none", placed |-> 0]

\* A frame of the socket: a push of a channel with the price parseFloat finds
\* in it (0 when it finds none), the text "pong", the text "ping", another
\* JSON message, or other text that JSON.parse rejects.
NoFrame == [kind |-> "none", channel |-> "", price |-> 0]

\* The state after new MarketDataService(symbol).
FeedConstructed ==
    /\ feed_ws = "none"
    /\ feed_isConnected = FALSE
    /\ failCount = 0
    /\ reconnectTimeout = 0
    /\ pingInterval = FALSE
    /\ linkSevered = FALSE
    /\ lastFeedEvent = "none"
    /\ consecFails = 0
    /\ feedStopped = FALSE
    /\ lastFrame = NoFrame
    /\ feedTicks = <<>>
    /\ feedSent = "none"

\* The two agents new ParallelAgentSystem(...) creates and adds to its lead.
Agents == {"TechAgent", "StructAgent"}

\* An absent report, and the report analyze() stores when callLLM fell back.
NoReport == [signal |-> "none", confidence |-> 0]
NeutralReport == [signal |-> "neutral", confidence |-> DefaultConfidence]

\* An analyze() or makeDecision() call: idle, or suspended in gatherData
\* ("gather") or in the call of the language model ("llm"). first marks the
\* analyze() call that start() awaits; votes are the reports makeDecision()
\* collected before its call.
IdleCycle == [pc |-> "idle", first |-> FALSE]
IdleLeadCycle == [pc |-> "idle", votes |-> [a \in Agents |-> NoReport]]

NoLeadLog == [kind |-> "none", size |-> 0]

\* The state after new ParallelAgentSystem(...).
AgentsConstructed ==
    /\ agents = [a \in Agents |-> [isRunning |-> FALSE, interval |-> FALSE,
                                   lastReport |-> NoReport]]
    /\ agentCycles = [a \in Agents |-> [s \in Slots |-> IdleCycle]]
    /\ nAgentCycles = [a \in Agents |-> 0]
    /\ lead = [started |-> FALSE, isRunning |-> FALSE, decisionInterval |-> FALSE,
               warmup |-> FALSE]
    /\ latestReports = [a \in Agents |-> NoReport]
    /\ leadCycles = [s \in Slots |-> IdleLeadCycle]
    /\ nLeadCycles = 0
    /\ leadLog = NoLeadLog

\* The state after new HFTEngineV3(...), which constructs its feed and its
\* agent system.
HftConstructed ==
    /\ phase = "new"
    /\ isRunning = FALSE
    /\ priceHistory = <<>>
    /\ currentPosition = NoPos
    /\ lastExecutionTime = 0
    /\ agents_config = [bias |-> "neutral", biasStrength |-> 0,
                        riskPerTrade |-> DefaultRiskPerTrade, signalThreshold |-> 30]
    /\ lastDecision = NoDecision
    /\ wsLastPrice = 0
    /\ now = StartTime
    /\ handlers = [s \in Slots |-> IdleHandler]
    /\ orders = <<>>
    /\ lastEval = NoEval
    /\ nTicks = 0
    /\ nDecisions = 0
    /\ nAdvances = 0
    /\ ticksHandled = <<>>
    /\ FeedConstructed
    /\ AgentsConstructed

\* ---- the other components, as constructed --------------------------------
TeamAgents == {"MarketAnalyst", "SentimentAgent", "RiskManager"}
NoVote == [signal |-> "none", confidence |-> 0]
NoConsensus == [action |-> "none", confidence |-> 0, direction |-> "none"]

\* The locals of runTeamAnalysis before it is called.
TeamConstructed ==
    /\ team_pc = "idle"
    /\ team_decisions = [a \in TeamAgents |-> NoVote]
    /\ team_consensus = NoConsensus
    /\ executorCalls = 0

RECURSIVE Pow2Ceil(_, _)
Pow2Ceil(c, p) == IF p >= c THEN p ELSE Pow2Ceil(c, 2 * p)

\* Math.pow(2, Math.ceil(Math.log2(capacity))): the least power of 2 that is
\* at least capacity.
RoundUpPow2(capacity) == Pow2Ceil(capacity, 1)

\* new Array(capacity): every slot undefined (0; the items are positive).
EmptyBuffer(capacity) == [i \in 0..(capacity - 1) |-> 0]

\* new RingBuffer(capacity)
NewRingBuffer(capacity) ==
    [buffer |-> EmptyBuffer(RoundUpPow2(capacity)), head |-> 0, tail |-> 0, size |-> 0,
     capacity |-> RoundUpPow2(capacity)]

RingConstructed(capacity) ==
    /\ ring = NewRingBuffer(capacity)
    /\ ringArg = capacity
    /\ ringPushed = <<>>

\* The state after new WeexWebSocket().
WwsConstructed ==
    /\ wws_ws = "none"
    /\ wws_isConnected = FALSE
    /\ reconnectAttempts = 0
    /\ wws_timers = [ping |-> 0, reconnect |-> 0, handleAlive |-> FALSE]
    /\ wws_opens = 0

RestConstructed ==
    /\ TeamConstructed
    /\ RingConstructed(1)
    /\ WwsConstructed
    /\ exchangePosition = NoPos

\* ---- inputs of the RiskEngine operations --------------------------------
EquityValues == {600, 940, 1000, 1100}
PnLValues == {-300, 0}
PeakValues == {500, 1000, 2000}
InitialEquityValues == {700, 1300}
SizeValues == {1, 5, 6}
Sides == {"buy", "sell"}

NoArg == [x \in {} |-> 0]

\* Partial<AccountState>: the partial states the operations are driven with.
PartialStates ==
    {[equity |-> e] : e \in EquityValues}
    \cup {[positionSize |-> s] : s \in {0, 5}}
    \cup {[dailyPnL |-> d] : d \in PnLValues}
    \cup {[peakEquity |-> p] : p \in PeakValues}
    \cup {[equity |-> e, peakEquity |-> p] : e \in {940}, p \in PeakValues}
    \cup {[initialEquity |-> i] : i \in InitialEquityValues}
    \cup {NoArg}

NoCall ==
    [op |-> "none", side |-> "none", size |-> 0, newState |-> NoArg, ret |-> FALSE,
     preTripped |-> FALSE, preReason |-> ""]

\* The history record of an operation performed in the current state.
CallRecord(op) ==
    [NoCall EXCEPT !.op = op, !.preTripped = isCircuitBreakerTripped, !.preReason = tripReason]

RiskInit ==
    /\ risk_config \in {HftRiskConfig(700), ScenarioRiskConfig}
    /\ risk_state = NewAccountState(DefaultInitialEquity)
    /\ isCircuitBreakerTripped = FALSE
    /\ tripReason = ""
    /\ lastCall = NoCall
    /\ nCalls = 0
    /\ HftConstructed
    /\ RestConstructed

\* risk.updateState(newState)
UpdateState(newState) ==
    /\ nCalls < MaxCalls
    /\ risk_state' = UpdateStateResult(risk_state, newState)
    /\ lastCall' = [CallRecord("updateState") EXCEPT !.newState = newState]
    /\ nCalls' = nCalls + 1
    /\ UNCHANGED <<risk_config, isCircuitBreakerTripped, tripReason>>
    /\ UNCHANGED <<hftVars, feedVars, agentVars, restVars>>

\* risk.canTrade(side, size, price)
CanTrade(side, size) ==
    /\ nCalls < MaxCalls
    /\ LET r == CanTradeResult(risk_config, risk_state, isCircuitBreakerTripped, tripReason, side, size)
       IN  /\ isCircuitBreakerTripped' = r.tripped
           /\ tripReason' = r.reason
           /\ lastCall' = [CallRecord("canTrade") EXCEPT !.side = side, !.size = size, !.ret = r.ret]
    /\ nCalls' = nCalls + 1
    /\ UNCHANGED <<risk_config, risk_state>>
    /\ UNCHANGED <<hftVars, feedVars, agentVars, restVars>>

\* risk.reset()
Reset ==
    /\ nCalls < MaxCalls
    /\ isCircuitBreakerTripped' = FALSE
    /\ tripReason' = ""
    /\ lastCall' = CallRecord("reset")
    /\ nCalls' = nCalls + 1
    /\ UNCHANGED <<risk_config, risk_state>>
    /\ UNCHANGED <<hftVars, feedVars, agentVars, restVars>>

vars == <<risk_config, risk_state, isCircuitBreakerTripped, tripReason, lastCall, nCalls,
          phase, isRunning, priceHistory, currentPosition, lastExecutionTime, agents_config,
          lastDecision, wsLastPrice, now, handlers, orders, lastEval,
          nTicks, nDecisions, nAdvances, ticksHandled,
          feed_ws, feed_isConnected, failCount, reconnectTimeout, pingInterval, linkSevered,
          lastFeedEvent, consecFails, feedStopped, lastFrame, feedTicks, feedSent,
          agents, agentCycles, nAgentCycles, lead, latestReports, leadCycles, nLeadCycles,
          leadLog,
          team_pc, team_decisions, team_consensus, executorCalls,
          ring, ringArg, ringPushed,
          wws_ws, wws_isConnected, reconnectAttempts, wws_timers, wws_opens,
          exchangePosition>>

RiskNext ==
    \/ \E newState \in PartialStates : UpdateState(newState)
    \/ \E side \in Sides, size \in SizeValues : CanTrade(side, size)
    \/ Reset

\* The RiskEngine driven through its public operations in any order.
SpecRisk == RiskInit /\ [][RiskNext]_vars

\* ------------------------------------------------------------------------
\* HFTEngineV3: operations
\* ------------------------------------------------------------------------
HasFreeSlot == \E s \in Slots : handlers[s].pc = "idle"

FreeSlot ==
    CHOOSE s \in Slots :
        /\ handlers[s].pc = "idle"
        /\ \A t \in Slots : handlers[t].pc = "idle" => s <= t

\* The handler of slot either suspends at `await this.weex.placeOrder(...)`
\* with the order of run handed to the exchange client, or it returns. The
\* history record of the order keeps what the evaluation worked with (seen).
Dispatch(slot, kind, event, decision, run, seen) ==
    IF run.placed # <<>>
    THEN /\ orders' = Append(orders,
                [kind |-> kind, event |-> event, weexSide |-> run.placed[1].weexSide,
                 size |-> run.placed[1].size, at |-> now, status |-> "pending",
                 advisory |-> AdvisoryAge(decision, now), action |-> seen.action,
                 pos |-> seen.pos, price |-> seen.price, config |-> seen.config])
         /\ handlers' = [handlers EXCEPT ![slot] =
                [pc |-> "placing", kind |-> kind, event |-> event, decision |-> NoDecision,
                 weexSide |-> run.placed[1].weexSide, size |-> run.placed[1].size,
                 rest |-> run.rest, order |-> Len(orders) + 1]]
    ELSE /\ orders' = orders
         /\ handlers' = [handlers EXCEPT ![slot] = IdleHandler]

\* evaluateAndExecute(decision, price), from its start to its first await or
\* its return: dead man's switch, local confirmation, cooldown, the order
\* branch, the risk gate and the placeOrder call. history and config are
\* this.priceHistory and this.agents.getConfig() at the time of the call.
evaluateAndExecute(slot, kind, event, decision, price, history, config) ==
    LET eff == EffectiveAdvisory(decision, now)
        localRSI == IF Len(history) > RsiPeriod THEN calculateRSI(history, RsiPeriod) ELSE 5000
        qualifies == eff.confidence > minConf /\ HftConfirm(eff, localRSI)
        cooled == now - lastExecutionTime < CooldownMs
        plan == IF qualifies /\ ~cooled
                THEN OrderPlan(eff.action, currentPosition, config.riskPerTrade)
                ELSE <<>>
        run == RunOrders(plan, risk_state, currentPosition, isCircuitBreakerTripped, tripReason)
    IN  /\ isCircuitBreakerTripped' = run.tripped
        /\ tripReason' = run.reason
        /\ Dispatch(slot, kind, event, decision, run,
                    [action |-> eff.action, pos |-> currentPosition, price |-> price,
                     config |-> config])
        /\ lastEval' = [advisory |-> AdvisoryAge(decision, now), placed |-> Len(run.placed)]

\* start(), up to `await this.agents.start()`: the feed is started.
Start ==
    /\ phase = "new"
    /\ phase' = "starting"
    /\ isRunning' = TRUE
    /\ UNCHANGED <<riskVars, lastCall, nCalls, priceHistory, currentPosition, lastExecutionTime,
                   agents_config, lastDecision, wsLastPrice, now, handlers, orders, lastEval,
                   nTicks, nDecisions, nAdvances, ticksHandled>>
    /\ UNCHANGED <<feedVars, agentVars, restVars>>

\* start(), from the return of agents.start(): the tick and decision
\* listeners are bound and syncPosition() calls getPositions().
BindAndSync ==
    /\ phase = "starting"
    /\ phase' = "syncing"
    /\ UNCHANGED <<riskVars, lastCall, nCalls, isRunning, priceHistory, currentPosition,
                   lastExecutionTime, agents_config, lastDecision, wsLastPrice, now, handlers,
                   orders, lastEval, nTicks, nDecisions, nAdvances, ticksHandled>>
    /\ UNCHANGED <<feedVars, agentVars, restVars>>

\* syncPosition(), from the reply of getPositions(): an open position of the
\* symbol is adopted; NoPos stands for no such position and for a failed call.
SyncReply(pos) ==
    /\ phase = "syncing"
    /\ phase' = "ready"
    /\ IF pos # NoPos
       THEN /\ currentPosition' = pos
            /\ risk_state' = UpdateStateResult(risk_state, [positionSize |-> pos.size])
       ELSE UNCHANGED <<currentPosition, risk_state>>
    /\ UNCHANGED <<risk_config, isCircuitBreakerTripped, tripReason, lastCall, nCalls, isRunning,
                   priceHistory, lastExecutionTime, agents_config, lastDecision, wsLastPrice, now,
                   handlers, orders, lastEval, nTicks, nDecisions, nAdvances, ticksHandled>>
    /\ UNCHANGED <<feedVars, agentVars, restVars>>

\* stop(): called by the SIGINT handler, which v2.ts installs after start()
\* has returned.
Stop ==
    /\ phase = "ready"
    /\ isRunning
    /\ isRunning' = FALSE
    /\ UNCHANGED <<riskVars, lastCall, nCalls, phase, priceHistory, currentPosition,
                   lastExecutionTime, agents_config, lastDecision, wsLastPrice, now, handlers,
                   orders, lastEval, nTicks, nDecisions, nAdvances, ticksHandled>>
    /\ UNCHANGED <<feedVars, agentVars, restVars>>

\* MarketDataService.handleMessage for a frame with a new price, and the
\* onTick(price) listener it calls when bound.
FeedTick(price) ==
    /\ phase # "new"
    /\ nTicks < MaxTicks
    /\ price > 0 /\ price # wsLastPrice
    /\ wsLastPrice = 0 => price = FirstPrice
    /\ wsLastPrice' = price
    /\ nTicks' = nTicks + 1
    /\ IF phase \in {"syncing", "ready"} /\ isRunning
       THEN /\ HasFreeSlot
            /\ priceHistory' = PushPrice(priceHistory, price)
            /\ ticksHandled' = Append(ticksHandled, price)
            /\ evaluateAndExecute(FreeSlot, "tick", nTicks', lastDecision, price, priceHistory',
                                    agents_config)
       ELSE UNCHANGED <<priceHistory, ticksHandled, isCircuitBreakerTripped, tripReason,
                        orders, handlers, lastEval>>
    /\ UNCHANGED <<risk_config, risk_state, lastCall, nCalls, phase, isRunning, currentPosition,
                   lastExecutionTime, agents_config, lastDecision, now, nDecisions, nAdvances>>
    /\ UNCHANGED <<feedVars, agentVars, restVars>>

\* LeadCoordinator.makeDecision from the answer of the language model on:
\* lastDecision is replaced, then the 'decision' listeners run, first
\* ParallelAgentSystem's (config update), then HFTEngineV3's, which
\* evaluates at the feed's price or first asks the exchange for a ticker.
LeadDecision(answer) ==
    /\ phase \in {"syncing", "ready"}
    /\ nDecisions < MaxDecisions
    /\ nDecisions' = nDecisions + 1
    /\ LET decision == BuildDecision(answer, now)
       IN  /\ lastDecision' = decision
           /\ agents_config' = updateConfigFromDecision(agents_config, decision)
           /\ IF ~isRunning
              THEN UNCHANGED <<isCircuitBreakerTripped, tripReason, orders, handlers,
                               lastEval>>
              ELSE /\ HasFreeSlot
                   /\ IF wsLastPrice > 0
                      THEN evaluateAndExecute(FreeSlot, "advisory", nDecisions', decision,
                                              wsLastPrice, priceHistory, agents_config')
                      ELSE /\ handlers' = [handlers EXCEPT ![FreeSlot] =
                                  [IdleHandler EXCEPT !.pc = "ticker", !.kind = "advisory",
                                                      !.event = nDecisions',
                                                      !.decision = decision]]
                           /\ UNCHANGED <<isCircuitBreakerTripped, tripReason, orders,
                                          lastEval>>
    /\ UNCHANGED <<risk_config, risk_state, lastCall, nCalls, phase, isRunning, priceHistory,
                   currentPosition, lastExecutionTime, wsLastPrice, now, nTicks, nAdvances, ticksHandled>>
    /\ UNCHANGED <<feedVars, agentVars, restVars>>

\* The decision listener from the reply of getTicker(): price 0 stands for a
\* failed call or a price that is not a positive number.
TickerReply(slot, price) ==
    /\ handlers[slot].pc = "ticker"
    /\ IF price > 0
       THEN evaluateAndExecute(slot, "advisory", handlers[slot].event, handlers[slot].decision,
                               price, priceHistory, agents_config)
       ELSE /\ handlers' = [handlers EXCEPT ![slot] = IdleHandler]
            /\ UNCHANGED <<isCircuitBreakerTripped, tripReason, orders, lastEval>>
    /\ UNCHANGED <<risk_config, risk_state, lastCall, nCalls, phase, isRunning, priceHistory,
                   currentPosition, lastExecutionTime, agents_config, lastDecision, wsLastPrice,
                   now, nTicks, nDecisions, nAdvances, ticksHandled>>
    /\ UNCHANGED <<feedVars, agentVars, restVars>>

\* A variant in which a failed placement gives the position up.
ReplyOutcomeFlatOnFailure(ok, h, pos, st, last, t) ==
    LET after == IF ok THEN PositionAfterFill(h.weexSide, h.size, pos) ELSE NoPos
    IN  [pos |-> after,
         st |-> UpdateStateResult(st, [positionSize |-> after.size]),
         last |-> IF ok THEN t ELSE last]

\* executeOrder after `await placeOrder`: the try block's statements after a
\* fill (time t), the catch block, which only logs, after a failure. h is the
\* handler, pos, st and last are currentPosition, the risk engine's state
\* and lastExecutionTime.
ReplyOutcome(ok, h, pos, st, last, t) ==
    IF ok
    THEN LET after == PositionAfterFill(h.weexSide, h.size, pos)
         IN  [pos |-> after,
              st |-> UpdateStateResult(st, [positionSize |-> after.size]),
              last |-> t]
    ELSE [pos |-> pos, st |-> st, last |-> last]

\* executeOrder from the outcome of placeOrder on. A fill sets
\* lastExecutionTime, the optimistic position and the risk engine's position
\* size; a failure is logged only. Then the handler goes on with what is
\* left of its evaluation.
OrderReply(slot, ok) ==
    /\ handlers[slot].pc = "placing"
    /\ LET h == handlers[slot]
           out == ReplyOutcome(ok, h, currentPosition, risk_state, lastExecutionTime, now)
           pos == out.pos
           st == out.st
           run == RunOrders(h.rest, st, pos, isCircuitBreakerTripped, tripReason)
           done == [orders EXCEPT ![h.order].status = IF ok THEN "filled" ELSE "failed"]
       IN  /\ lastExecutionTime' = out.last
           /\ currentPosition' = pos
           /\ risk_state' = st
           /\ isCircuitBreakerTripped' = run.tripped
           /\ tripReason' = run.reason
           /\ IF run.placed # <<>>
              THEN /\ orders' = Append(done,
                          [kind |-> h.kind, event |-> h.event,
                           weexSide |-> run.placed[1].weexSide, size |-> run.placed[1].size,
                           at |-> now, status |-> "pending",
                           advisory |-> orders[h.order].advisory,
                           action |-> orders[h.order].action, pos |-> pos,
                           price |-> orders[h.order].price,
                           config |-> orders[h.order].config])
                   /\ handlers' = [handlers EXCEPT ![slot] =
                          [h EXCEPT !.weexSide = run.placed[1].weexSide,
                                    !.size = run.placed[1].size, !.rest = run.rest,
                                    !.order = Len(orders) + 1]]
              ELSE /\ orders' = done
                   /\ handlers' = [handlers EXCEPT ![slot] = IdleHandler]
    /\ UNCHANGED <<risk_config, lastCall, nCalls, phase, isRunning, priceHistory, agents_config,
                   lastDecision, wsLastPrice, now, lastEval, nTicks, nDecisions,
                   nAdvances, ticksHandled>>
    /\ UNCHANGED <<feedVars, agentVars, restVars>>

\* The wall clock moves on.
Advance(d) ==
    /\ nAdvances < MaxAdvances
    /\ now' = now + d
    /\ nAdvances' = nAdvances + 1
    /\ UNCHANGED <<riskVars, lastCall, nCalls, phase, isRunning, priceHistory, currentPosition,
                   lastExecutionTime, agents_config, lastDecision, wsLastPrice, handlers, orders,
                   lastEval, nTicks, nDecisions, ticksHandled>>
    /\ UNCHANGED <<feedVars, agentVars, restVars>>

\* The engine with its risk engine, its feed and its agent system.
EngineConstructed ==
    /\ \E minBalance \in MinBalances : risk_config = HftRiskConfig(minBalance)
    /\ risk_state = NewAccountState(DefaultInitialEquity)
    /\ isCircuitBreakerTripped = FALSE
    /\ tripReason = ""
    /\ lastCall = NoCall
    /\ nCalls = 0
    /\ HftConstructed

Init ==
    /\ EngineConstructed
    /\ RestConstructed

Next ==
    \/ Start
    \/ BindAndSync
    \/ \E pos \in ExchangePositions : SyncReply(pos)
    \/ Stop
    \/ \E price \in Prices : FeedTick(price)
    \/ \E answer \in LlmAnswers : LeadDecision(answer)
    \/ \E slot \in Slots, price \in Prices \cup {0} : TickerReply(slot, price)
    \/ \E slot \in Slots, ok \in BOOLEAN : OrderReply(slot, ok)
    \/ \E d \in TimeSteps : Advance(d)

\* One HFTEngineV3 with its risk engine, driven by the feed, the lead
\* coordinator, the exchange's replies and the clock.
\* The socket of the feed is not followed here (SpecFeed does that): its
\* frames arrive as FeedTick.
Spec == Init /\ [][Next]_vars

\* The position the exchange holds for the symbol changes without an order
\* of the engine: a liquidation, a stop order or a trade placed elsewhere.
ExchangeChanges(pos) ==
    /\ pos # exchangePosition
    /\ exchangePosition' = pos
    /\ UNCHANGED <<riskVars, lastCall, nCalls, hftVars, feedVars, agentVars, teamVars, ringVars,
                   wwsVars>>

\* The engine beside an exchange that holds some position when it starts.
SyncInit ==
    /\ EngineConstructed
    /\ TeamConstructed
    /\ RingConstructed(1)
    /\ WwsConstructed
    /\ exchangePosition \in ExchangePositions

\* getPositions() answers with the exchange's position, or fails (NoPos).
SyncNext ==
    \/ Start
    \/ BindAndSync
    \/ \E pos \in {exchangePosition, NoPos} : SyncReply(pos)
    \/ \E pos \in ExchangePositions : ExchangeChanges(pos)
    \/ \E d \in TimeSteps : Advance(d)
    \/ Stop

\* The position of the engine and of the exchange while no tick and no
\* advisory arrives. The steps of start() are taken once they can be and the
\* clock runs on; stop() and the exchange's own changes need not happen.
SpecSync ==
    /\ SyncInit
    /\ [][SyncNext]_vars
    /\ WF_vars(Start)
    /\ WF_vars(BindAndSync)
    /\ WF_vars(\E pos \in {exchangePosition, NoPos} : SyncReply(pos))
    /\ WF_vars(\E d \in TimeSteps : Advance(d))

\* ------------------------------------------------------------------------
\* HFTEngineV3: the price window over long runs of ticks
\* ------------------------------------------------------------------------
\* The i-th price of a run of ticks in which no two consecutive prices are
\* equal (the feed passes a frame on only when its price differs from the
\* last one).
RunPrice(i) == 88000 + 10 * (i % 3)

\* The engine started, synced flat and running, after it has handled n ticks
\* and before the lead has published any decision.
AfterTicks(n) ==
    /\ phase = "ready"
    /\ isRunning = TRUE
    /\ priceHistory = [i \in 1..n |-> RunPrice(i)]
    /\ ticksHandled = [i \in 1..n |-> RunPrice(i)]
    /\ wsLastPrice = IF n = 0 THEN 0 ELSE RunPrice(n)
    /\ currentPosition = NoPos
    /\ lastExecutionTime = 0
    /\ agents_config = [bias |-> "neutral", biasStrength |-> 0,
                        riskPerTrade |-> DefaultRiskPerTrade, signalThreshold |-> 30]
    /\ lastDecision = NoDecision
    /\ now = StartTime
    /\ handlers = [s \in Slots |-> IdleHandler]
    /\ orders = <<>>
    /\ lastEval = IF n = 0 THEN NoEval ELSE [advisory |-> "absent", placed |-> 0]
    /\ nTicks = 0
    /\ nDecisions = 0
    /\ nAdvances = 0
    /\ FeedConstructed
    /\ AgentsConstructed

WindowInit ==
    /\ risk_config = HftRiskConfig(DefaultMinBalance)
    /\ risk_state = NewAccountState(DefaultInitialEquity)
    /\ isCircuitBreakerTripped = FALSE
    /\ tripReason = ""
    /\ lastCall = NoCall
    /\ nCalls = 0
    /\ \E n \in 0..HistoryLimit : AfterTicks(n)
    /\ RestConstructed

WindowNext ==
    \/ \E price \in Prices : FeedTick(price)
    \/ Stop

\* The engine from any number of handled ticks up to the window's capacity
\* on, fed with further ticks.
SpecWindow == WindowInit /\ [][WindowNext]_vars

\* ------------------------------------------------------------------------
\* MarketDataService: connect, failures and reconnects
\* ------------------------------------------------------------------------
ReconnectDelayMs == 2000     \* setTimeout(..., 2000) in handleClose

\* A variant that tolerates one failure more.
TooManyFailuresAfterSeven(count) == count > 6

\* if (this.failCount > 5) in connect()
TooManyFailures(count) == count > 5

\* handleClose(): nothing while reconnectTimeout holds a handle, else the
\* failure is counted, the ping is stopped and connect() is scheduled.
HandleClose ==
    IF reconnectTimeout # 0
    THEN UNCHANGED <<feed_isConnected, failCount, reconnectTimeout, pingInterval>>
    ELSE /\ feed_isConnected' = FALSE
         /\ failCount' = failCount + 1
         /\ pingInterval' = FALSE
         /\ reconnectTimeout' = ReconnectDelayMs

\* connect(), called with no reconnect scheduled: the old socket loses its
\* listeners and is terminated; after too many failures the severed link is
\* announced and nothing else happens, else a new socket is created, and
\* handleClose() runs when its creation throws.
Connect(throws) ==
    IF TooManyFailures(failCount)
    THEN /\ feed_ws' = "terminated"
         /\ linkSevered' = TRUE
         /\ lastFeedEvent' = "severed"
         /\ UNCHANGED <<feed_isConnected, failCount, consecFails, pingInterval>>
         /\ reconnectTimeout' = 0
    ELSE IF throws
    THEN /\ consecFails < MaxFailures
         /\ feed_ws' = "terminated"
         /\ feed_isConnected' = FALSE
         /\ failCount' = failCount + 1
         /\ pingInterval' = FALSE
         /\ reconnectTimeout' = ReconnectDelayMs
         /\ consecFails' = consecFails + 1
         /\ lastFeedEvent' = "fail"
         /\ UNCHANGED linkSevered
    ELSE /\ feed_ws' = "connecting"
         /\ reconnectTimeout' = 0
         /\ lastFeedEvent' = "connect"
         /\ UNCHANGED <<feed_isConnected, failCount, linkSevered, consecFails, pingInterval>>

\* start()
FeedStart(throws) ==
    /\ feed_ws = "none" /\ lastFeedEvent = "none"
    /\ Connect(throws)
    /\ UNCHANGED <<feedStopped, lastFrame, feedTicks, feedSent>>
    /\ UNCHANGED <<riskVars, lastCall, nCalls, hftVars, agentVars, restVars>>

\* The timer of handleClose fires: reconnectTimeout = null; connect().
ReconnectTimer(throws) ==
    /\ reconnectTimeout > 0
    /\ Connect(throws)
    /\ UNCHANGED <<feedStopped, lastFrame, feedTicks, feedSent>>
    /\ UNCHANGED <<riskVars, lastCall, nCalls, hftVars, agentVars, restVars>>

\* The 'open' listener: the failure count is reset, the subscription is sent
\* and the ping is started.
SocketOpen ==
    /\ feed_ws = "connecting"
    /\ feed_ws' = "open"
    /\ feed_isConnected' = TRUE
    /\ failCount' = 0
    /\ pingInterval' = TRUE
    /\ consecFails' = 0
    /\ lastFeedEvent' = "open"
    /\ feedSent' = "subscribe"
    /\ UNCHANGED <<reconnectTimeout, linkSevered, feedStopped, lastFrame, feedTicks>>
    /\ UNCHANGED <<riskVars, lastCall, nCalls, hftVars, agentVars, restVars>>

\* The 'error' listener: handleClose(). The socket's 'close' event follows.
SocketError ==
    /\ feed_ws \in {"connecting", "open"}
    /\ consecFails < MaxFailures
    /\ feed_ws' = "errored"
    /\ HandleClose
    /\ consecFails' = consecFails + 1
    /\ lastFeedEvent' = "fail"
    /\ UNCHANGED <<linkSevered, feedStopped, lastFrame, feedTicks, feedSent>>
    /\ UNCHANGED <<riskVars, lastCall, nCalls, hftVars, agentVars, restVars>>

\* The 'close' listener: handleClose(), which returns at once when the
\* 'error' listener of the same socket has already scheduled the reconnect.
\* The event also follows the close() call of stop().
SocketClose ==
    /\ feed_ws \in {"connecting", "open", "errored", "closing"}
    /\ feed_ws = "errored" \/ consecFails < MaxFailures
    /\ feed_ws' = "closed"
    /\ HandleClose
    /\ consecFails' = IF feed_ws = "errored" THEN consecFails ELSE consecFails + 1
    /\ lastFeedEvent' = IF feed_ws = "errored" THEN "closed" ELSE "fail"
    /\ UNCHANGED <<linkSevered, feedStopped, lastFrame, feedTicks, feedSent>>
    /\ UNCHANGED <<riskVars, lastCall, nCalls, hftVars, agentVars, restVars>>

\* stop(): clearTimeout(reconnectTimeout), which leaves the handle in the
\* field; stopPing(); ws?.close(), after which a socket that was connecting
\* or open emits 'close'.
FeedStop ==
    /\ lastFeedEvent # "none"
    /\ ~feedStopped
    /\ feedStopped' = TRUE
    /\ reconnectTimeout' = IF reconnectTimeout # 0 THEN -1 ELSE 0
    /\ pingInterval' = FALSE
    /\ feed_ws' = IF feed_ws \in {"connecting", "open"} THEN "closing" ELSE feed_ws
    /\ lastFeedEvent' = "stop"
    /\ UNCHANGED <<feed_isConnected, failCount, linkSevered, consecFails, lastFrame, feedTicks,
                   feedSent>>
    /\ UNCHANGED <<riskVars, lastCall, nCalls, hftVars, agentVars, restVars>>

\* A variant of the filter that lets a repeated price through.
TickPriceNoDuplicateTest(frame, lastPrice) ==
    IF /\ frame.kind = "push"
       /\ frame.channel \in {"ticker", "candle1m"}
       /\ frame.price > 0
    THEN frame.price
    ELSE 0

\* The 'message' listener and handleMessage: the price of the tick the frame
\* leads to, 0 when it leads to none ("pong" returns early, the JSON.parse
\* error of "ping" or of other text is caught, other messages and channels
\* are passed over).
TickPrice(frame, lastPrice) ==
    IF /\ frame.kind = "push"
       /\ frame.channel \in {"ticker", "candle1m"}
       /\ frame.price > 0
       /\ frame.price # lastPrice
    THEN frame.price
    ELSE 0

Frames ==
    {[kind |-> "push", channel |-> c, price |-> p] :
        c \in {"ticker", "candle1m", "depth"}, p \in Prices \cup {0}}
    \cup {[kind |-> k, channel |-> "", price |-> 0] :
            k \in {"pong", "ping", "other", "garbage"}}

\* The 'message' listener with a frame, before the engine has bound its tick
\* listener: a new price is stored in the snapshot and emitted.
FeedFrame(frame) ==
    /\ feed_ws = "open"
    /\ nTicks < MaxTicks \/ TickPrice(frame, wsLastPrice) = 0
    /\ lastFrame' = frame
    /\ LET tick == TickPrice(frame, wsLastPrice)
       IN  IF tick > 0
           THEN /\ wsLastPrice' = tick
                /\ nTicks' = nTicks + 1
                /\ feedTicks' = Append(feedTicks, tick)
                /\ lastFeedEvent' = "tick"
           ELSE /\ UNCHANGED <<wsLastPrice, nTicks, feedTicks>>
                /\ lastFeedEvent' = "frame"
    /\ UNCHANGED <<feed_ws, feed_isConnected, failCount, reconnectTimeout, pingInterval,
                   linkSevered, consecFails, feedStopped, feedSent>>
    /\ UNCHANGED <<riskVars, lastCall, nCalls, phase, isRunning, priceHistory, currentPosition,
                   lastExecutionTime, agents_config, lastDecision, now, handlers, orders,
                   lastEval, nDecisions, nAdvances, ticksHandled, agentVars, restVars>>

\* The interval timer of startPing fires: 'ping' is sent on an open socket.
PingTimer ==
    /\ pingInterval
    /\ feedSent' = IF feed_ws = "open" THEN "ping" ELSE feedSent
    /\ UNCHANGED <<feed_ws, feed_isConnected, failCount, reconnectTimeout, pingInterval,
                   linkSevered, lastFeedEvent, consecFails, feedStopped, lastFrame, feedTicks>>
    /\ UNCHANGED <<riskVars, lastCall, nCalls, hftVars, agentVars, restVars>>

FeedNext ==
    \/ \E throws \in BOOLEAN : FeedStart(throws)
    \/ \E throws \in BOOLEAN : ReconnectTimer(throws)
    \/ SocketOpen
    \/ SocketError
    \/ SocketClose
    \/ FeedStop
    \/ \E frame \in Frames : FeedFrame(frame)
    \/ PingTimer

\* The feed on its own, driven by its socket's events, its timer and stop().
SpecFeed == Init /\ [][FeedNext]_vars

\* ------------------------------------------------------------------------
\* ParallelAgentSystem: the agents' cycles and the coordinator's cycles
\* ------------------------------------------------------------------------
\* What the call of the language model ends with: content that parses to an
\* object ("json", with the fields of the object, "" and 0 for a missing
\* one), content that parses to null, content JSON.parse rejects
\* ("garbage"), or a rejected request ("error", and "timeout" when no answer
\* came in time).
LlmFailures == {"error", "timeout", "garbage"}

AgentAnswers ==
    {[signal |-> "bullish", confidence |-> 60],
     [signal |-> "bearish", confidence |-> 55],
     [signal |-> "", confidence |-> 0]}

AgentReplies ==
    {[kind |-> "json", signal |-> a.signal, confidence |-> a.confidence] : a \in AgentAnswers}
    \cup {[kind |-> k, signal |-> "", confidence |-> 0] : k \in LlmFailures \cup {"null"}}

\* An answer outside what the prompt asks for.
InvalidAnswer == [action |-> "buy", confidence |-> 150, positionSize |-> 100000]

\* What the lead's call may answer: a trade, an empty object, the invalid answer.
LeadAnswers ==
    {[action |-> "long", confidence |-> 80, positionSize |-> 20000],
     [action |-> "", confidence |-> 0, positionSize |-> 0],
     InvalidAnswer}

LeadReplies ==
    {[kind |-> "json", answer |-> a] : a \in LeadAnswers}
    \cup {[kind |-> k, answer |-> [action |-> "", confidence |-> 0, positionSize |-> 0]] :
            k \in LlmFailures \cup {"null"}}

\* IndependentAgent.callLLM: the parsed content, or the fallback of its catch.
callLLM(reply) ==
    IF reply.kind \in LlmFailures
    THEN [signal |-> "neutral", confidence |-> DefaultConfidence]
    ELSE [signal |-> reply.signal, confidence |-> reply.confidence]

\* The report analyze() builds from what callLLM returned.
BuildReport(analysis) ==
    [signal |-> IF analysis.signal = "" THEN "neutral" ELSE analysis.signal,
     confidence |-> IF analysis.confidence = 0 THEN DefaultConfidence ELSE analysis.confidence]

\* LeadCoordinator.callLeadLLM: the parsed content, or the fallback of its catch.
callLeadLLM(reply) ==
    IF reply.kind \in LlmFailures
    THEN [action |-> "hold", confidence |-> DefaultConfidence, positionSize |-> 0]
    ELSE reply.answer

\* A variant that goes on with one report.
TooFewReportsBelowOne(size) == size < 1

\* if (this.latestReports.size < 2) return; in makeDecision()
TooFewReports(size) == size < 2

ReportsSize == Cardinality({a \in Agents : latestReports[a] # NoReport})

InFlight(a) == {s \in Slots : agentCycles[a][s].pc # "idle"}
FreeCycleSlot(a) == CHOOSE s \in Slots \ InFlight(a) : \A t \in Slots \ InFlight(a) : s <= t
LeadInFlight == {s \in Slots : leadCycles[s].pc # "idle"}
FreeLeadSlot == CHOOSE s \in Slots \ LeadInFlight : \A t \in Slots \ LeadInFlight : s <= t

hftRest == <<phase, isRunning, priceHistory, currentPosition, lastExecutionTime, wsLastPrice,
             now, handlers, orders, lastEval, nTicks, nDecisions, nAdvances, ticksHandled>>

\* LeadCoordinator.start(), as ParallelAgentSystem.start() calls it: every
\* agent is started, which begins its first analyze() and suspends in
\* gatherData; the warm-up timer and the decision interval are armed.
LeadStart ==
    /\ ~lead.started
    /\ lead' = [started |-> TRUE, isRunning |-> TRUE, decisionInterval |-> TRUE,
                warmup |-> TRUE]
    /\ agents' = [a \in Agents |-> [agents[a] EXCEPT !.isRunning = TRUE]]
    /\ agentCycles' = [a \in Agents |->
                          [agentCycles[a] EXCEPT ![1] = [pc |-> "gather", first |-> TRUE]]]
    /\ nAgentCycles' = [a \in Agents |-> 1]
    /\ UNCHANGED <<latestReports, leadCycles, nLeadCycles, leadLog>>
    /\ UNCHANGED <<riskVars, lastCall, nCalls, feedVars, restVars, hftRest, agents_config, lastDecision>>

\* The end of an analyze() call of agent a in slot: when it is the call
\* start() awaits, start() goes on and sets the interval.
CycleEnds(a, slot, report) ==
    /\ agents' = [agents EXCEPT
                    ![a].lastReport = IF report = NoReport THEN @ ELSE report,
                    ![a].interval = IF agentCycles[a][slot].first THEN TRUE ELSE @]
    /\ latestReports' = IF report = NoReport THEN latestReports
                        ELSE [latestReports EXCEPT ![a] = report]
    /\ agentCycles' = [agentCycles EXCEPT ![a][slot] = IdleCycle]

\* gatherData() of an analyze() call settles: analyze() goes on to callLLM,
\* or the rejection lands in the catch of analyze(), which only logs.
GatherReply(a, slot, ok) ==
    /\ agentCycles[a][slot].pc = "gather"
    /\ IF ok
       THEN /\ agentCycles' = [agentCycles EXCEPT ![a][slot].pc = "llm"]
            /\ UNCHANGED <<agents, latestReports>>
       ELSE CycleEnds(a, slot, NoReport)
    /\ UNCHANGED <<nAgentCycles, lead, leadCycles, nLeadCycles, leadLog>>
    /\ UNCHANGED <<riskVars, lastCall, nCalls, feedVars, restVars, hftRest, agents_config, lastDecision>>

\* The call of the language model of an analyze() call settles: the report
\* is stored and emitted, and the lead's listener files it under the agent's
\* name; content that parses to null makes analyze() throw into its catch.
AgentLlmReply(a, slot, reply) ==
    /\ agentCycles[a][slot].pc = "llm"
    /\ IF reply.kind = "null"
       THEN CycleEnds(a, slot, NoReport)
       ELSE CycleEnds(a, slot, BuildReport(callLLM(reply)))
    /\ UNCHANGED <<nAgentCycles, lead, leadCycles, nLeadCycles, leadLog>>
    /\ UNCHANGED <<riskVars, lastCall, nCalls, feedVars, restVars, hftRest, agents_config, lastDecision>>

\* The interval of agent a fires: if (this.isRunning) await this.analyze().
AgentTimer(a) ==
    /\ agents[a].interval
    /\ agents[a].isRunning
    /\ nAgentCycles[a] < MaxAgentCycles
    /\ InFlight(a) # Slots
    /\ agentCycles' = [agentCycles EXCEPT ![a][FreeCycleSlot(a)] =
                          [pc |-> "gather", first |-> FALSE]]
    /\ nAgentCycles' = [nAgentCycles EXCEPT ![a] = @ + 1]
    /\ UNCHANGED <<agents, lead, latestReports, leadCycles, nLeadCycles, leadLog>>
    /\ UNCHANGED <<riskVars, lastCall, nCalls, feedVars, restVars, hftRest, agents_config, lastDecision>>

\* makeDecision() up to its await: it returns at once with too few reports,
\* else it collects the reports and calls the language model.
makeDecision ==
    /\ nLeadCycles < MaxLeadCycles
    /\ nLeadCycles' = nLeadCycles + 1
    /\ IF TooFewReports(ReportsSize)
       THEN /\ leadLog' = [kind |-> "skipped", size |-> ReportsSize]
            /\ UNCHANGED leadCycles
       ELSE /\ LeadInFlight # Slots
            /\ leadCycles' = [leadCycles EXCEPT ![FreeLeadSlot] =
                                 [pc |-> "llm", votes |-> latestReports]]
            /\ leadLog' = [kind |-> "called", size |-> ReportsSize]
    /\ UNCHANGED <<agents, agentCycles, nAgentCycles, latestReports>>
    /\ UNCHANGED <<riskVars, lastCall, nCalls, feedVars, restVars, hftRest, agents_config, lastDecision>>

\* The warm-up timer of start() fires: makeDecision(), whatever isRunning is.
WarmupTimer ==
    /\ lead.warmup
    /\ lead' = [lead EXCEPT !.warmup = FALSE]
    /\ makeDecision

\* The decision interval fires: if (this.isRunning) makeDecision().
DecisionTimer ==
    /\ lead.decisionInterval
    /\ lead.isRunning
    /\ UNCHANGED lead
    /\ makeDecision

\* callLeadLLM of a makeDecision() call settles: the decision is stored and
\* emitted, and the listener of ParallelAgentSystem updates its config;
\* content that parses to null makes makeDecision() throw into its catch.
LeadLlmReply(slot, reply) ==
    /\ leadCycles[slot].pc = "llm"
    /\ leadCycles' = [leadCycles EXCEPT ![slot] = IdleLeadCycle]
    /\ IF reply.kind = "null"
       THEN UNCHANGED <<lastDecision, agents_config>>
       ELSE LET decision == BuildDecision(callLeadLLM(reply), now)
            IN  /\ lastDecision' = decision
                /\ agents_config' = updateConfigFromDecision(agents_config, decision)
    /\ UNCHANGED <<agents, agentCycles, nAgentCycles, lead, latestReports, nLeadCycles, leadLog>>
    /\ UNCHANGED <<riskVars, lastCall, nCalls, feedVars, restVars, hftRest>>

\* LeadCoordinator.stop(): every agent is stopped and its interval cleared,
\* the decision interval is cleared.
LeadStop ==
    /\ lead.isRunning
    /\ lead' = [lead EXCEPT !.isRunning = FALSE, !.decisionInterval = FALSE]
    /\ agents' = [a \in Agents |-> [agents[a] EXCEPT !.isRunning = FALSE, !.interval = FALSE]]
    /\ UNCHANGED <<agentCycles, nAgentCycles, latestReports, leadCycles, nLeadCycles, leadLog>>
    /\ UNCHANGED <<riskVars, lastCall, nCalls, feedVars, restVars, hftRest, agents_config, lastDecision>>

AgentsNext ==
    \/ LeadStart
    \/ \E a \in Agents, slot \in Slots, ok \in BOOLEAN : GatherReply(a, slot, ok)
    \/ \E a \in Agents, slot \in Slots, reply \in AgentReplies : AgentLlmReply(a, slot, reply)
    \/ \E a \in Agents : AgentTimer(a)
    \/ WarmupTimer
    \/ DecisionTimer
    \/ \E slot \in Slots, reply \in LeadReplies : LeadLlmReply(slot, reply)
    \/ LeadStop

\* The agent system on its own, driven by its timers, the replies of the
\* exchange and of the language model, and stop().
SpecAgents == Init /\ [][AgentsNext]_vars

\* ------------------------------------------------------------------------
\* RingBuffer (ws/websocket.ts)
\* ------------------------------------------------------------------------
\* x & (capacity - 1), for the power of 2 the constructor makes of capacity.
Mask(x, capacity) == x % capacity

\* A variant that keeps the head where it is when the buffer is full.
RingPushNoEviction(r, item) ==
    [r EXCEPT !.buffer[r.tail] = item,
              !.tail = Mask(r.tail + 1, r.capacity),
              !.size = IF r.size < r.capacity THEN r.size + 1 ELSE r.size]

\* push(item)
RingPush(r, item) ==
    [r EXCEPT !.buffer[r.tail] = item,
              !.tail = Mask(r.tail + 1, r.capacity),
              !.size = IF r.size < r.capacity THEN r.size + 1 ELSE r.size,
              !.head = IF r.size < r.capacity THEN r.head ELSE Mask(r.head + 1, r.capacity)]

\* The slots head + from .. head + size - 1 in order, without the undefined ones.
RingSlice(r, from) ==
    SelectSeq([k \in 1..(r.size - from) |-> r.buffer[Mask(r.head + from + k - 1, r.capacity)]],
              LAMBDA x : x # 0)

\* getAll()
getAll(r) == RingSlice(r, 0)

\* getLast(n), for n >= 0
getLast(r, n) == RingSlice(r, r.size - (IF n < r.size THEN n ELSE r.size))

\* getSize()
getSize(r) == r.size

RingItems == {1, 2}

\* buffer.push(item)
RingPushOp(item) ==
    /\ Len(ringPushed) < MaxPushes
    /\ ring' = RingPush(ring, item)
    /\ ringPushed' = Append(ringPushed, item)
    /\ UNCHANGED ringArg
    /\ UNCHANGED <<riskVars, lastCall, nCalls, hftVars, feedVars, agentVars, teamVars, wwsVars,
                   exchangePosition>>

\* buffer.clear()
RingClear ==
    /\ ringPushed # <<>>
    /\ ring' = [ring EXCEPT !.buffer = EmptyBuffer(ring.capacity), !.head = 0, !.tail = 0,
                            !.size = 0]
    /\ ringPushed' = <<>>
    /\ UNCHANGED ringArg
    /\ UNCHANGED <<riskVars, lastCall, nCalls, hftVars, feedVars, agentVars, teamVars, wwsVars,
                   exchangePosition>>

RingInit ==
    /\ EngineConstructed
    /\ TeamConstructed
    /\ WwsConstructed
    /\ exchangePosition = NoPos
    /\ \E capacity \in 1..MaxCapacity : RingConstructed(capacity)

RingNext ==
    \/ \E item \in RingItems : RingPushOp(item)
    \/ RingClear

\* One RingBuffer of any capacity, driven through push and clear.
SpecRing == RingInit /\ [][RingNext]_vars

\* ------------------------------------------------------------------------
\* CoordinatorAgent (agents/coordinator.ts)
\* ------------------------------------------------------------------------
\* The weights of calculateConsensus, in hundredths. A score is a confidence
\* (hundredths) times a weight, in ten-thousandths.
ConsensusWeights == [MarketAnalyst |-> 35, SentimentAgent |-> 25, RiskManager |-> 40]
ExecuteThreshold == 6500     \* totalScore >= 0.65
AlertThreshold == 4500       \* totalScore >= 0.45

BuySignals == {"buy", "bullish", "approve"}
SellSignals == {"sell", "bearish"}

\* The sum of f[a] over the agents in set.
RECURSIVE SumOver(_, _)
SumOver(f, set) ==
    IF set = {} THEN 0
    ELSE LET a == CHOOSE x \in set : TRUE IN f[a] + SumOver(f, set \ {a})

\* The weighted score and the direction votes of the loop over the decisions.
ConsensusTally(decisions) ==
    LET buyers == {a \in TeamAgents : decisions[a].signal \in BuySignals}
        sellers == {a \in TeamAgents : decisions[a].signal \in SellSignals}
        score == [a \in TeamAgents |-> decisions[a].confidence * ConsensusWeights[a]]
        totalScore == SumOver(score, buyers \cup sellers)
        buy == SumOver(ConsensusWeights, buyers)
        sell == SumOver(ConsensusWeights, sellers)
    IN  [action |-> IF totalScore >= ExecuteThreshold THEN "execute"
                    ELSE IF totalScore >= AlertThreshold THEN "alert" ELSE "hold",
         confidence |-> totalScore,
         direction |-> IF buy > sell THEN "buy" ELSE IF sell > buy THEN "sell" ELSE "none"]

\* A variant without the veto of the risk manager.
calculateConsensusNoVeto(decisions) ==
    ConsensusTally(decisions)

\* calculateConsensus(decisions), called with the decisions of all three agents.
calculateConsensus(decisions) ==
    IF decisions.RiskManager.signal = "reject"
    THEN [action |-> "hold", confidence |-> 0, direction |-> "none"]
    ELSE ConsensusTally(decisions)

\* What the agents answer.
MarketSignals == {"buy", "sell", "bullish", "bearish", "neutral"}
SentimentSignals == {"bullish", "bearish", "neutral"}
RiskSignals == {"approve", "reduce", "reject"}
TeamConfidences == {30, 100}

\* runTeamAnalysis(symbol) up to its first await.
RunTeamAnalysis ==
    /\ team_pc = "idle"
    /\ team_pc' = "market"
    /\ UNCHANGED <<team_decisions, team_consensus, executorCalls>>
    /\ UNCHANGED <<riskVars, lastCall, nCalls, hftVars, feedVars, agentVars, ringVars, wwsVars,
                   exchangePosition>>

\* marketAnalyst.analyze() and sentimentAgent.analyze() settle.
AnalystReply(agent, signal, confidence) ==
    /\ \/ agent = "MarketAnalyst" /\ team_pc = "market" /\ team_pc' = "sentiment"
       \/ agent = "SentimentAgent" /\ team_pc = "sentiment" /\ team_pc' = "risk"
    /\ team_decisions' = [team_decisions EXCEPT
                             ![agent] = [signal |-> signal, confidence |-> confidence]]
    /\ UNCHANGED <<team_consensus, executorCalls>>
    /\ UNCHANGED <<riskVars, lastCall, nCalls, hftVars, feedVars, agentVars, ringVars, wwsVars,
                   exchangePosition>>

\* riskManager.analyze() settles: the consensus is calculated and the
\* coordinator's log is uploaded.
RiskReply(signal, confidence) ==
    /\ team_pc = "risk"
    /\ team_pc' = "upload"
    /\ team_decisions' = [team_decisions EXCEPT
                             !.RiskManager = [signal |-> signal, confidence |-> confidence]]
    /\ team_consensus' = calculateConsensus(team_decisions')
    /\ UNCHANGED executorCalls
    /\ UNCHANGED <<riskVars, lastCall, nCalls, hftVars, feedVars, agentVars, ringVars, wwsVars,
                   exchangePosition>>

\* uploadAILog() settles: the executor is invoked for an execute consensus
\* with a direction.
UploadReply ==
    /\ team_pc = "upload"
    /\ IF team_consensus.action = "execute" /\ team_consensus.direction \in {"buy", "sell"}
       THEN /\ team_pc' = "executor"
            /\ executorCalls' = executorCalls + 1
       ELSE /\ team_pc' = "done"
            /\ UNCHANGED executorCalls
    /\ UNCHANGED <<team_decisions, team_consensus>>
    /\ UNCHANGED <<riskVars, lastCall, nCalls, hftVars, feedVars, agentVars, ringVars, wwsVars,
                   exchangePosition>>

\* executor.analyze() settles.
ExecutorReply ==
    /\ team_pc = "executor"
    /\ team_pc' = "done"
    /\ UNCHANGED <<team_decisions, team_consensus, executorCalls>>
    /\ UNCHANGED <<riskVars, lastCall, nCalls, hftVars, feedVars, agentVars, ringVars, wwsVars,
                   exchangePosition>>

TeamNext ==
    \/ RunTeamAnalysis
    \/ \E signal \in MarketSignals, confidence \in TeamConfidences :
          AnalystReply("MarketAnalyst", signal, confidence)
    \/ \E signal \in SentimentSignals, confidence \in TeamConfidences :
          AnalystReply("SentimentAgent", signal, confidence)
    \/ \E signal \in RiskSignals, confidence \in TeamConfidences : RiskReply(signal, confidence)
    \/ UploadReply
    \/ ExecutorReply

\* One runTeamAnalysis call of the coordinator, with any answers of its team.
SpecTeam == Init /\ [][TeamNext]_vars

\* ------------------------------------------------------------------------
\* WeexWebSocket (ws/websocket.ts): connection, ping and reconnect
\* ------------------------------------------------------------------------
maxReconnectAttempts == 10   \* private maxReconnectAttempts: number = 10

\* connect(): this.ws = new WebSocket(url), with its four listeners.
WwsConnect ==
    /\ wws_ws = "none"
    /\ wws_ws' = "connecting"
    /\ UNCHANGED <<wws_isConnected, reconnectAttempts, wws_timers, wws_opens>>
    /\ UNCHANGED <<riskVars, lastCall, nCalls, hftVars, feedVars, agentVars, teamVars, ringVars,
                   exchangePosition>>

\* The 'open' listener: the attempts are reset and startPing() creates an
\* interval timer and stores its handle.
WwsOpen ==
    /\ wws_ws = "connecting"
    /\ wws_opens < MaxOpens
    /\ wws_ws' = "open"
    /\ wws_isConnected' = TRUE
    /\ reconnectAttempts' = 0
    /\ wws_timers' = [wws_timers EXCEPT !.ping = @ + 1, !.handleAlive = TRUE]
    /\ wws_opens' = wws_opens + 1
    /\ UNCHANGED <<riskVars, lastCall, nCalls, hftVars, feedVars, agentVars, teamVars, ringVars,
                   exchangePosition>>

\* The 'error' listener, which changes no field; the socket's 'close' follows.
WwsError ==
    /\ wws_ws \in {"connecting", "open"}
    /\ wws_ws' = "errored"
    /\ UNCHANGED <<wws_isConnected, reconnectAttempts, wws_timers, wws_opens>>
    /\ UNCHANGED <<riskVars, lastCall, nCalls, hftVars, feedVars, agentVars, teamVars, ringVars,
                   exchangePosition>>

\* The 'close' listener: attemptReconnect() schedules connect() unless the
\* attempts are used up.
WwsClose ==
    /\ wws_ws \in {"connecting", "open", "errored", "closing"}
    /\ wws_ws' = "closed"
    /\ wws_isConnected' = FALSE
    /\ IF reconnectAttempts >= maxReconnectAttempts
       THEN UNCHANGED <<reconnectAttempts, wws_timers>>
       ELSE /\ reconnectAttempts' = reconnectAttempts + 1
            /\ wws_timers' = [wws_timers EXCEPT !.reconnect = @ + 1]
    /\ UNCHANGED wws_opens
    /\ UNCHANGED <<riskVars, lastCall, nCalls, hftVars, feedVars, agentVars, teamVars, ringVars,
                   exchangePosition>>

\* The timeout of attemptReconnect fires: connect().
WwsReconnectTimer ==
    /\ wws_timers.reconnect > 0
    /\ wws_timers' = [wws_timers EXCEPT !.reconnect = @ - 1]
    /\ wws_ws' = "connecting"
    /\ UNCHANGED <<wws_isConnected, reconnectAttempts, wws_opens>>
    /\ UNCHANGED <<riskVars, lastCall, nCalls, hftVars, feedVars, agentVars, teamVars, ringVars,
                   exchangePosition>>

\* disconnect(): the timer whose handle pingInterval holds is cleared, the
\* socket is closed (its 'close' follows) and forgotten.
WwsDisconnect ==
    /\ wws_ws \in {"connecting", "open"}
    /\ wws_ws' = "closing"
    /\ wws_isConnected' = FALSE
    /\ wws_timers' = IF wws_timers.handleAlive
                     THEN [wws_timers EXCEPT !.ping = @ - 1, !.handleAlive = FALSE]
                     ELSE wws_timers
    /\ UNCHANGED <<reconnectAttempts, wws_opens>>
    /\ UNCHANGED <<riskVars, lastCall, nCalls, hftVars, feedVars, agentVars, teamVars, ringVars,
                   exchangePosition>>

WwsNext ==
    \/ WwsConnect
    \/ WwsOpen
    \/ WwsError
    \/ WwsClose
    \/ WwsReconnectTimer
    \/ WwsDisconnect

\* One WeexWebSocket, driven by its socket's events, its timers and disconnect().
SpecWeexWs == Init /\ [][WwsNext]_vars

\* ------------------------------------------------------------------------
\* Properties of the RiskEngine (checked under SpecRisk)
\* ------------------------------------------------------------------------

\* The request of the last canTrade call is within the position cap.
LastCallInCap ==
    Abs(ProjectedSize(risk_state, lastCall.side, lastCall.size)) <= risk_config.maxPositionSize

\* One of the three trip conditions holds in the current account state
\* (peakEquity is positive in every state of SpecRisk).
AnyTripCondition ==
    \/ risk_state.dailyPnL < -risk_config.maxDailyLoss
    \/ risk_state.equity < risk_config.minEquity
    \/ (risk_state.peakEquity - risk_state.equity) * 100 > risk_config.maxDrawdown * risk_state.peakEquity

\* The account state of the drawdown scenario: an engine built with equity
\* 1000 whose equity went to 940 while the peak stayed at 1000, maxDrawdown 0.05.
DrawdownScenario ==
    /\ risk_config = ScenarioRiskConfig
    /\ risk_state.initialEquity = DefaultInitialEquity
    /\ risk_state.equity = 940
    /\ risk_state.peakEquity = 1000

\* C1: circuit-breaker latch. Once the breaker is tripped, every canTrade
\* call returns false whatever its arguments, and no updateState or canTrade
\* call clears the tripped flag: only reset() does.
C1_BreakerLatch ==
    [][isCircuitBreakerTripped =>
        /\ (lastCall'.op = "canTrade" => lastCall'.ret = FALSE)
        /\ (lastCall'.op # "reset" => isCircuitBreakerTripped')
        /\ (lastCall'.op = "reset" => ~isCircuitBreakerTripped')]_vars

\* C1 witness: canTrade was called on a tripped engine whose account state no
\* longer satisfies any trip condition, with an in-cap request, and returned false.
C1_Witness ==
    /\ lastCall.op = "canTrade"
    /\ lastCall.preTripped
    /\ LastCallInCap
    /\ ~AnyTripCondition
    /\ lastCall.ret = FALSE
    /\ isCircuitBreakerTripped

\* C2: for an Armed engine and an in-cap request, canTrade trips and returns
\* false iff the daily loss, the equity floor or the drawdown condition holds;
\* otherwise it returns true and stays Armed. In the drawdown scenario the
\* call returns false, the status reports tripped and the reason is the
\* drawdown one.
C2_TripIffCondition ==
    [][(~isCircuitBreakerTripped /\ lastCall'.op = "canTrade"
            /\ Abs(ProjectedSize(risk_state, lastCall'.side, lastCall'.size)) <= risk_config.maxPositionSize) =>
        /\ AnyTripCondition => (lastCall'.ret = FALSE /\ isCircuitBreakerTripped')
        /\ ~AnyTripCondition => (lastCall'.ret = TRUE /\ ~isCircuitBreakerTripped')
        /\ (DrawdownScenario /\ lastCall.op = "updateState") =>
              (lastCall'.ret = FALSE /\ getStatus'.tripped /\ getStatus'.reason = ReasonDrawdown)]_vars

\* C2 witness: the drawdown scenario has tripped the breaker on an in-cap request.
C2_Witness ==
    /\ DrawdownScenario
    /\ lastCall.op = "canTrade"
    /\ ~lastCall.preTripped
    /\ LastCallInCap
    /\ lastCall.ret = FALSE
    /\ isCircuitBreakerTripped
    /\ tripReason = ReasonDrawdown

\* C3 (as claimed): after the breaker has tripped on drawdown in the drawdown
\* scenario, reset() restores canTrade: the next in-cap canTrade returns true.
C3_ResetRestoresCanTrade ==
    [][(DrawdownScenario /\ lastCall.op = "reset" /\ lastCall.preTripped
            /\ lastCall.preReason = ReasonDrawdown /\ lastCall'.op = "canTrade"
            /\ Abs(ProjectedSize(risk_state, lastCall'.side, lastCall'.size)) <= risk_config.maxPositionSize) =>
        lastCall'.ret = TRUE]_vars

\* C4: an Armed engine rejects a request whose projected absolute position
\* size exceeds the cap without touching the breaker, the reason or the
\* account state, even when a trip condition holds.
C4_CapRejectLeavesStateAlone ==
    [][(~isCircuitBreakerTripped /\ lastCall'.op = "canTrade"
            /\ Abs(ProjectedSize(risk_state, lastCall'.side, lastCall'.size)) > risk_config.maxPositionSize) =>
        /\ lastCall'.ret = FALSE
        /\ UNCHANGED <<isCircuitBreakerTripped, tripReason, risk_state, risk_config>>]_vars

\* C4 witness: an Armed engine in which a trip condition holds has rejected
\* an over-cap request and is still Armed.
C4_Witness ==
    /\ lastCall.op = "canTrade"
    /\ ~lastCall.preTripped
    /\ ~LastCallInCap
    /\ AnyTripCondition
    /\ lastCall.ret = FALSE
    /\ ~isCircuitBreakerTripped
    /\ tripReason = ""

\* C5 (as claimed): after every updateState, peakEquity >= equity and
\* peakEquity is the maximum of the previous peak and the new equity.
C5_PeakIsMaxOfPreviousPeak ==
    [][lastCall'.op = "updateState" =>
        /\ risk_state'.peakEquity >= risk_state'.equity
        /\ risk_state'.peakEquity = Max(risk_state.peakEquity, risk_state'.equity)]_vars

\* The peak an updateState call starts from: the one it supplies, else the previous one.
MergedPeak(newState) ==
    IF "peakEquity" \in DOMAIN newState THEN newState.peakEquity ELSE risk_state.peakEquity

\* C5 (amended): after every updateState, peakEquity >= equity and peakEquity
\* is the maximum of the new equity and the peak the call supplies, or the
\* previous peak when it supplies none.
C5_PeakIsMaxOfMergedPeak ==
    [][lastCall'.op = "updateState" =>
        /\ risk_state'.peakEquity >= risk_state'.equity
        /\ risk_state'.peakEquity = Max(MergedPeak(lastCall'.newState), risk_state'.equity)]_vars

\* C5 witness: an updateState call supplied a peak below the equity and the
\* peak was raised to the equity.
C5_Witness ==
    /\ lastCall.op = "updateState"
    /\ "peakEquity" \in DOMAIN lastCall.newState
    /\ lastCall.newState.peakEquity < risk_state.equity
    /\ risk_state.peakEquity = risk_state.equity

\* C6: after every updateState, dailyPnL = equity - initialEquity, also when
\* the call supplies its own dailyPnL or initialEquity.
C6_DailyPnL ==
    [][lastCall'.op = "updateState" =>
        risk_state'.dailyPnL = risk_state'.equity - risk_state'.initialEquity]_vars

\* C6 witness: an updateState call supplied a dailyPnL that differs from
\* equity - initialEquity and the stored one is the recomputed one.
C6_Witness ==
    /\ lastCall.op = "updateState"
    /\ "dailyPnL" \in DOMAIN lastCall.newState
    /\ lastCall.newState.dailyPnL # risk_state.equity - risk_state.initialEquity
    /\ risk_state.dailyPnL = risk_state.equity - risk_state.initialEquity

\* ------------------------------------------------------------------------
\* Properties of the HotLoop, HFTEngineV3 (checked under Spec)
\* ------------------------------------------------------------------------
OrderIds == 1..Len(orders)

\* C7: dead-man switch. No order is dispatched by an evaluation whose
\* advisory is absent or older than the decay window of 60 s: every order
\* was placed by an evaluation that was handed a fresh advisory.
C7_DeadManSwitch ==
    \A i \in OrderIds : orders[i].advisory = "fresh"

\* C7 witness: the last evaluation ran with a stale advisory that says long
\* at confidence 0.8, on a running, flat, Armed engine outside the cooldown
\* with an in-cap order size, and placed nothing: only the age held it back.
C7_Witness ==
    /\ lastEval.advisory = "stale"
    /\ lastEval.placed = 0
    /\ lastDecision.action = "long" /\ lastDecision.confidence = 80
    /\ now - lastDecision.timestamp > 60000
    /\ isRunning
    /\ currentPosition = NoPos
    /\ now - lastExecutionTime >= 5000
    /\ agents_config.riskPerTrade <= risk_config.maxPositionSize
    /\ ~isCircuitBreakerTripped
    /\ orders = <<>>

\* C8: at most one order is placed through the exchange client as a result
\* of one tick (and of one advisory event): no two orders come from the same event.
C8_OneOrderPerTick ==
    \A i, j \in OrderIds :
        (i < j /\ orders[i].kind = orders[j].kind) => orders[i].event # orders[j].event

\* C8 witness: a tick has placed an order, the order was filled, the handler
\* of that tick has returned, and this order is the only one of that tick.
C8_Witness ==
    \E i \in OrderIds :
        /\ orders[i].kind = "tick"
        /\ orders[i].status = "filled"
        /\ \A s \in Slots : handlers[s].pc = "idle"
        /\ \A j \in OrderIds : (orders[j].kind = "tick" /\ orders[j].event = orders[i].event) => j = i

\* C9 (as claimed): cooldown. Two evaluations that begin less than 5 s apart
\* produce at most one order, also when the second begins while the order of
\* the first is awaiting the exchange's reply: no two filled orders were
\* placed less than 5000 ms apart.
C9_Cooldown ==
    \A i, j \in OrderIds :
        (i < j /\ orders[i].status = "filled" /\ orders[j].status = "filled") =>
            orders[j].at - orders[i].at >= 5000

\* C10 (as claimed): single consumer. The evaluation of a tick does not
\* begin before the evaluation of the previous tick, its order submission and
\* position update included, has completed: no two tick handlers are
\* suspended in the middle of their evaluation at the same time.
C10_SingleConsumer ==
    \A s, t \in Slots :
        (handlers[s].pc # "idle" /\ handlers[s].kind = "tick"
            /\ handlers[t].pc # "idle" /\ handlers[t].kind = "tick") => s = t


\* ------------------------------------------------------------------------
\* Positions, side codes and sizes of HFTEngineV3 (checked under Spec)
\* ------------------------------------------------------------------------
OpenCodes == {1, 3}

CloseCodes == {2, 4}

\* The order a step has just handed to the exchange client.
NewOrder == orders'[Len(orders')]

AllHandlersIdle == \A s \in Slots : handlers[s].pc = "idle"

\* A step in which the lead publishes the decision and the engine's decision
\* listener evaluates it at once, with nothing else in flight, no cooldown
\* running and the breaker closed.
AdvisoryEvaluatedAtOnce ==
    /\ nDecisions' = nDecisions + 1
    /\ isRunning
    /\ wsLastPrice > 0
    /\ AllHandlersIdle
    /\ now - lastExecutionTime >= CooldownMs
    /\ ~isCircuitBreakerTripped
    /\ Len(priceHistory) <= RsiPeriod

\* C11 (as claimed): at most one open position. Between two opening orders
\* (side code 1 or 3) handed to the exchange there is a closing order (side
\* code 2 or 4), unless the first of the two was refused by the exchange.
C11_OneOpenPosition ==
    \A i, j \in OrderIds :
        (/\ i < j
         /\ orders[i].weexSide \in OpenCodes /\ orders[i].status # "failed"
         /\ orders[j].weexSide \in OpenCodes) =>
            \E k \in OrderIds : i < k /\ k < j /\ orders[k].weexSide \in CloseCodes

\* C12: the side code of every order is the one the table gives for the
\* intended direction and the side of the position the evaluation saw:
\* (long, flat) 1, (long, short) 2, (short, flat) 3, (short, long) 4,
\* (close, long) 4, (close, short) 2; no order exists for any other pair.
C12_SideCode ==
    \A i \in OrderIds :
        LET a == orders[i].action
            p == orders[i].pos.side
            c == orders[i].weexSide
        IN  \/ a = "long" /\ p = "flat" /\ c = 1
            \/ a = "long" /\ p = "short" /\ c = 2
            \/ a = "short" /\ p = "flat" /\ c = 3
            \/ a = "short" /\ p = "long" /\ c = 4
            \/ a = "close" /\ p = "long" /\ c = 4
            \/ a = "close" /\ p = "short" /\ c = 2

\* C12 happens: a long advisory met a recovered short position, the order
\* went out with side code 2 and was filled, which left the engine flat.
C12_Witness ==
    /\ \E i \in OrderIds :
            /\ orders[i].action = "long" /\ orders[i].pos.side = "short"
            /\ orders[i].weexSide = 2 /\ orders[i].status = "filled"
    /\ currentPosition = NoPos

\* C13 (as claimed): reversal. The order an opposing advisory produces
\* against an open position closes it: side code 4 against a long, 2 against
\* a short, and its size is the size of the position.
C13_ReversalClosesPosition ==
    \A i \in OrderIds :
        LET o == orders[i]
        IN  /\ (o.action = "short" /\ o.pos.side = "long") =>
                    (o.weexSide = 4 /\ o.size = o.pos.size)
            /\ (o.action = "long" /\ o.pos.side = "short") =>
                    (o.weexSide = 2 /\ o.size = o.pos.size)

\* min(equity * riskPerTrade / price, maxPositionSize) rounded to 5 decimals,
\* in units of 0.00001 (riskPerTrade in millionths, the cap in units of 0.01).
ClaimedOpenSize(equity, riskPerTrade, price, cap) ==
    LET raw == (2 * equity * riskPerTrade + 10 * price) \div (20 * price)
    IN  IF raw < 1000 * cap THEN raw ELSE 1000 * cap

\* C14 (as claimed): the size of every opening order is
\* min(equity * riskPerTrade / price, maxPositionSize) rounded to 5 decimals,
\* and a fresh long advisory at confidence 0.8 with riskPerTrade 0.02, equity
\* 1000 and price 88000 on a flat, armed engine produces one order with side
\* code 1 and that size.
C14_OpenSize ==
    [][/\ (Len(orders') > Len(orders) /\ NewOrder.weexSide \in OpenCodes) =>
            1000 * NewOrder.size =
                ClaimedOpenSize(risk_state.equity, NewOrder.config.riskPerTrade,
                                NewOrder.price, risk_config.maxPositionSize)
       /\ (/\ AdvisoryEvaluatedAtOnce
           /\ lastDecision'.action = "long" /\ lastDecision'.confidence = 80
           /\ agents_config'.riskPerTrade = DefaultRiskPerTrade
           /\ risk_state.equity = DefaultInitialEquity
           /\ wsLastPrice = 88000
           /\ currentPosition = NoPos) =>
            /\ Len(orders') = Len(orders) + 1
            /\ NewOrder.weexSide = 1
            /\ 1000 * NewOrder.size =
                ClaimedOpenSize(DefaultInitialEquity, DefaultRiskPerTrade, 88000,
                                risk_config.maxPositionSize)]_vars

\* C15 (as claimed): a fresh long advisory whose confidence is exactly
\* minConf, evaluated on a flat engine with an order size within the cap, no
\* cooldown running and the breaker closed, produces an order.
C15_ConfidenceBoundary ==
    [][(/\ AdvisoryEvaluatedAtOnce
        /\ lastDecision'.action = "long" /\ lastDecision'.confidence = minConf
        /\ agents_config'.riskPerTrade <= risk_config.maxPositionSize
        /\ currentPosition = NoPos) =>
            Len(orders') = Len(orders) + 1]_vars

\* C16 (as claimed): every order was dispatched by an evaluation whose biased
\* signal s' = s + 0.15 * biasStrength reached the signal threshold.
C16_SignalThreshold ==
    \A i \in OrderIds :
        (Len(priceHistory) < 10) =>
            Abs(BiasedSignal(EmptySignal, orders[i].config))
                >= 100 * orders[i].config.signalThreshold

\* C18: when the exchange refuses or fails a placement, the step that
\* handles the failure leaves the breaker, currentPosition, lastExecutionTime
\* and the risk engine's state as they were, the engine stays running and the
\* handler returns.
C18_FailedOrderChangesNothing ==
    [][\A i \in OrderIds :
            (orders[i].status = "pending" /\ orders'[i].status = "failed") =>
                /\ UNCHANGED <<currentPosition, lastExecutionTime, risk_state,
                               isCircuitBreakerTripped, tripReason, isRunning>>
                /\ \E s \in Slots :
                        handlers[s].order = i /\ handlers'[s].pc = "idle"]_vars

\* C18 happens: the close of a recovered position failed, the position is
\* still held, and a later tick has had its own order filled.
C18_Witness ==
    \E i, j \in OrderIds :
        /\ i < j
        /\ orders[i].status = "failed" /\ orders[i].weexSide \in CloseCodes
        /\ orders[j].kind = "tick" /\ orders[j].status = "filled"
        /\ ~isCircuitBreakerTripped


\* ------------------------------------------------------------------------
\* The price window (checked under SpecWindow)
\* ------------------------------------------------------------------------
Min(a, b) == IF a < b THEN a ELSE b

\* C17: the price window holds the last min(ticks handled, 100) prices the
\* running engine has handled, in arrival order (so the oldest are evicted).
C17_PriceWindow ==
    LET n == Len(ticksHandled)
        len == Min(n, HistoryLimit)
    IN  /\ Len(priceHistory) = len
        /\ priceHistory = SubSeq(ticksHandled, n - len + 1, n)

\* C17 happens: two ticks were handled by a full window.
C17_Witness ==
    /\ Len(ticksHandled) = HistoryLimit + 2
    /\ Len(priceHistory) = HistoryLimit
    /\ priceHistory[HistoryLimit] = ticksHandled[HistoryLimit + 2]

\* ------------------------------------------------------------------------
\* Reconnection of the feed (checked under SpecFeed)
\* ------------------------------------------------------------------------
\* C19: the feed announces the severed link exactly when connect() runs
\* after 6 sockets have failed without an open in between; from then on it
\* has no socket and no timer and nothing about it changes (no connection
\* attempt, no tick); before the sixth failure every timer ends in a new
\* connection attempt, and an open resets the failure count to zero.
C19_DegradedAfterSixFailures ==
    [][/\ linkSevered =>
            /\ feed_ws = "terminated" /\ reconnectTimeout = 0
            /\ UNCHANGED <<feed_ws, reconnectTimeout, failCount, linkSevered, wsLastPrice,
                           nTicks>>
       /\ (~linkSevered /\ linkSevered') => consecFails = 6
       /\ (reconnectTimeout # 0 /\ reconnectTimeout' = 0) =>
            (linkSevered' <=> consecFails = 6)
       /\ lastFeedEvent' = "connect" => consecFails < 6
       /\ (feed_ws = "connecting" /\ feed_ws' = "open") =>
            (failCount' = 0 /\ consecFails' = 0)]_vars

\* C19 happens: a feed that had been open and had delivered a price lost six
\* sockets in a row and announced the severed link.
C19_Witness ==
    /\ linkSevered
    /\ consecFails = 6
    /\ wsLastPrice > 0

\* 2 s * 2^(k-1), at most 30 s, in ms.
ClaimedBackoff(k) == Min(2000 * 2 ^ (k - 1), 30000)

\* C20 (as claimed): the reconnect scheduled after the k-th consecutive
\* failure waits min(2 s * 2^(k-1), 30 s).
C20_Backoff ==
    reconnectTimeout # 0 => reconnectTimeout = ClaimedBackoff(consecFails)


\* C21: the message listener emits a tick exactly for a push frame of the
\* ticker or candle1m channel whose price is positive and differs from the
\* cached one, and then caches that price; any other frame leaves the cached
\* price and the emitted ticks as they were; so no two consecutive ticks
\* carry the same price.
C21_TickFilter ==
    [][/\ lastFeedEvent' \in {"tick", "frame"} =>
            LET f == lastFrame'
                passes == /\ f.kind = "push"
                          /\ f.channel \in {"ticker", "candle1m"}
                          /\ f.price > 0
                          /\ f.price # wsLastPrice
            IN  /\ passes => /\ feedTicks' = Append(feedTicks, f.price)
                             /\ wsLastPrice' = f.price
                /\ ~passes => UNCHANGED <<feedTicks, wsLastPrice>>
       /\ \A i \in 1..(Len(feedTicks') - 1) : feedTicks'[i] # feedTicks'[i + 1]]_vars

\* C21 happens: after two ticks a frame of the ticker channel repeated the
\* cached price and was passed over.
C21_Witness ==
    /\ Len(feedTicks) = 2
    /\ lastFeedEvent = "frame"
    /\ lastFrame.kind = "push" /\ lastFrame.channel = "ticker"
    /\ lastFrame.price = wsLastPrice

\* C33 (as claimed): the feed answers a text frame "ping" of the server by
\* sending "pong", and a received "pong" produces no tick and changes nothing
\* of the feed's state.
C33_PingAnsweredPongIgnored ==
    [][\A f \in Frames : FeedFrame(f) =>
            /\ f.kind = "ping" => feedSent' = "pong"
            /\ f.kind = "pong" =>
                    UNCHANGED <<feedTicks, wsLastPrice, feed_ws, feed_isConnected, failCount,
                                reconnectTimeout, pingInterval, feedSent>>]_vars

\* C28 (as claimed): once stop() has been called the feed has no pending
\* reconnect timer and no ping timer and makes no connection attempt.
C28_StoppedFeedStaysStopped ==
    feedStopped =>
        /\ reconnectTimeout <= 0
        /\ ~pingInterval
        /\ feed_ws \notin {"connecting", "open"}


\* ------------------------------------------------------------------------
\* Properties of the agent system (checked under SpecAgents)
\* ------------------------------------------------------------------------
\* C22 (as claimed): within one agent at most one analysis cycle is under
\* way at any time, however long a cycle takes.
C22_NoOverlap ==
    \A a \in Agents : Cardinality(InFlight(a)) <= 1

\* The step ends a cycle of agent a in slot with a failure of the data
\* gathering, of the call of the language model, or of the parsing.
CycleFails(a, slot) ==
    \/ GatherReply(a, slot, FALSE)
    \/ \E reply \in AgentReplies :
          /\ reply.kind \in LlmFailures \cup {"null"}
          /\ AgentLlmReply(a, slot, reply)

\* C23 (as claimed): an agent cycle that ends with any failure leaves the
\* neutral report with confidence 0.5 as the agent's last report and as the
\* report the lead holds for it.
C23_FailureBecomesNeutralReport ==
    [][\A a \in Agents, slot \in Slots :
          CycleFails(a, slot) =>
              /\ agents'[a].lastReport = NeutralReport
              /\ latestReports'[a] = NeutralReport]_vars

\* C24: a makeDecision() call that finds fewer than 2 reports starts no call
\* of the language model and leaves the advisory and the config derived
\* from it untouched.
C24_SkipWithFewReports ==
    [][(nLeadCycles' = nLeadCycles + 1 /\ ReportsSize < 2) =>
          /\ UNCHANGED <<leadCycles, lastDecision, agents_config>>
          /\ leadLog'.kind = "skipped"]_vars

\* C24 happens: makeDecision() was called when one agent had reported and
\* the other had not, and it made no call.
C24_Witness ==
    /\ leadLog = [kind |-> "skipped", size |-> 1]
    /\ LeadInFlight = {}
    /\ lastDecision = NoDecision

\* C25 (as claimed): every advisory stored has one of the four actions.
C25_AdvisoryActionInSet ==
    lastDecision # NoDecision => lastDecision.action \in {"long", "short", "hold", "close"}

\* C26 (as claimed): every advisory stored has a confidence between 0 and 1
\* and a position size hint between 0.005 and 0.05.
C26_AdvisoryRanges ==
    lastDecision # NoDecision =>
        /\ lastDecision.confidence >= 0 /\ lastDecision.confidence <= 100
        /\ lastDecision.positionSize >= 5000 /\ lastDecision.positionSize <= 50000

\* Two reports agree on a direction, or one has a confidence above 0.7.
FusionAllowsAction(votes) ==
    \/ \E a, b \in Agents : /\ a # b
                            /\ votes[a].signal \in {"bullish", "bearish"}
                            /\ votes[a].signal = votes[b].signal
    \/ \E a \in Agents : votes[a].confidence > 70

\* C27 (as claimed): a decision made from reports of which no two agree on a
\* direction and none has a confidence above 0.7 is hold; made from a
\* bullish report at 0.6 and a bearish one at 0.55 it is hold with a
\* confidence of at most 0.5.
C27_FusionRule ==
    [][\A slot \in Slots, reply \in LeadReplies :
          (LeadLlmReply(slot, reply) /\ reply.kind # "null") =>
              LET votes == leadCycles[slot].votes
              IN  /\ ~FusionAllowsAction(votes) => lastDecision'.action = "hold"
                  /\ {votes[a] : a \in Agents} = {[signal |-> "bullish", confidence |-> 60],
                                                  [signal |-> "bearish", confidence |-> 55]}
                        => lastDecision'.confidence <= 50]_vars

\* C29 (as claimed): once stop() has been called no agent stores or emits a
\* report and the coordinator stores and emits no advisory.
C29_NothingPublishedAfterStop ==
    [][(lead.started /\ ~lead.isRunning) =>
          /\ \A a \in Agents : agents'[a].lastReport = agents[a].lastReport
          /\ UNCHANGED <<latestReports, lastDecision, agents_config>>]_vars

\* C30 (as claimed): an agent cycle whose call of the language model timed
\* out ends with the neutral report, and a coordinator cycle whose call
\* timed out is skipped: it stores and emits no advisory.
C30_TimeoutNotFatal ==
    [][\A slot \in Slots :
          /\ \A a \in Agents :
                (\E reply \in AgentReplies : reply.kind = "timeout" /\ AgentLlmReply(a, slot, reply))
                    => agents'[a].lastReport = NeutralReport
          /\ (\E reply \in LeadReplies : reply.kind = "timeout" /\ LeadLlmReply(slot, reply))
                => UNCHANGED <<lastDecision, agents_config>>]_vars


\* ------------------------------------------------------------------------
\* Further properties of the RiskEngine, the engine and the agent system
\* ------------------------------------------------------------------------
\* C34 (as claimed): with the breaker not tripped and no trip condition
\* holding, canTrade allows an order of exactly the recorded position size,
\* which is within maxPositionSize, on either side: the sell that closes a
\* long and the buy that closes a short (the engine records the size of a
\* position of either side as positionSize).
C34_CloseNeverCapped ==
    ( /\ lastCall.op = "canTrade"
      /\ ~lastCall.preTripped
      /\ lastCall.size = risk_state.positionSize
      /\ lastCall.size > 0
      /\ lastCall.size <= risk_config.maxPositionSize
      /\ risk_state.dailyPnL >= -risk_config.maxDailyLoss
      /\ risk_state.equity >= risk_config.minEquity
      /\ ~DrawdownExceeds(risk_state, risk_config) )
    => lastCall.ret = TRUE

\* C31 (as claimed): the position of a running engine is overwritten with the
\* exchange's again and again, so whenever the local position or the size
\* the RiskEngine holds differs from the exchange's, they agree again later
\* (or the engine has been stopped).
C31_PositionReconciled ==
    (/\ phase = "ready" /\ isRunning
     /\ \/ currentPosition # exchangePosition
        \/ risk_state.positionSize # exchangePosition.size)
    ~> (\/ ~isRunning
        \/ /\ currentPosition = exchangePosition
           /\ risk_state.positionSize = exchangePosition.size)

\* C35 (as claimed): no order is placed before the position sync of start()
\* has completed.
C35_NoOrderBeforeSync ==
    phase # "ready" => orders = <<>>

\* C38 (as claimed): at most one makeDecision() call is awaiting the
\* language model at any time.
C38_OneDecisionInFlight ==
    Cardinality(LeadInFlight) <= 1

\* C39 (as claimed): an agent that has been stopped and has no cycle under
\* way has no interval timer.
C39_NoTimerAfterStop ==
    \A a \in Agents :
        (lead.started /\ ~agents[a].isRunning /\ InFlight(a) = {}) => ~agents[a].interval


\* ------------------------------------------------------------------------
\* Properties of the RingBuffer (checked under SpecRing)
\* ------------------------------------------------------------------------
\* The last n items of a sequence, in order.
LastOf(seq, n) == SubSeq(seq, Len(seq) - n + 1, Len(seq))

\* What a buffer that retains up to limit items holds and answers.
RingRetains(limit) ==
    /\ getSize(ring) = Min(Len(ringPushed), limit)
    /\ getAll(ring) = LastOf(ringPushed, getSize(ring))
    /\ \A n \in 0..(MaxPushes + 1) :
          getLast(ring, n) = LastOf(ringPushed, Min(n, getSize(ring)))

\* C40 (as claimed): a RingBuffer constructed with capacity c retains the
\* last min(pushes since the last clear, c) items, and getAll() and
\* getLast(n) return them in push order.
C40_RetainsCapacity ==
    RingRetains(ringArg)

\* C40 (amended): a RingBuffer constructed with capacity c retains the last
\* min(pushes since the last clear, p) items, where p is the least power of
\* 2 that is at least c, and getAll() and getLast(n) return them in push
\* order.
C40_RetainsRoundedCapacity ==
    \E p \in 1..(2 * MaxCapacity) :
        /\ p >= ringArg
        /\ \E e \in 0..MaxCapacity : p = 2 ^ e
        /\ \A q \in ringArg..(p - 1) : \A e \in 0..MaxCapacity : q # 2 ^ e
        /\ RingRetains(p)

\* C40 happens: a buffer constructed with capacity 3 has been pushed 5 items
\* and holds the last 4 of them.
C40_Witness ==
    /\ ringArg = 3
    /\ Len(ringPushed) = 5
    /\ getSize(ring) = 4
    /\ getAll(ring) = LastOf(ringPushed, 4)
    /\ ringPushed[1] # ringPushed[5]


\* ------------------------------------------------------------------------
\* Properties of the CoordinatorAgent (checked under SpecTeam)
\* ------------------------------------------------------------------------
\* C32: when the risk manager's decision is reject, the consensus is hold
\* with confidence 0 and direction none, whatever the other two agents
\* reported, and the executor is not invoked.
C32_RiskVeto ==
    (team_consensus # NoConsensus /\ team_decisions.RiskManager.signal = "reject") =>
        /\ team_consensus = [action |-> "hold", confidence |-> 0, direction |-> "none"]
        /\ executorCalls = 0
        /\ team_pc # "executor"

\* C32 happens: the analyst and the sentiment agent both reported a buy
\* direction with full confidence, the risk manager rejected, and the
\* analysis finished without the executor.
C32_Witness ==
    /\ team_pc = "done"
    /\ team_decisions.MarketAnalyst = [signal |-> "buy", confidence |-> 100]
    /\ team_decisions.SentimentAgent = [signal |-> "bullish", confidence |-> 100]
    /\ team_decisions.RiskManager.signal = "reject"
    /\ executorCalls = 0

\* C37 (as claimed): the consensus direction is buy only if the analyst or
\* the sentiment agent signalled buy or bullish, and sell only if one of
\* them signalled sell or bearish.
C37_DirectionFromAnalysts ==
    team_consensus # NoConsensus =>
        /\ team_consensus.direction = "buy" =>
              \E a \in {"MarketAnalyst", "SentimentAgent"} :
                  team_decisions[a].signal \in {"buy", "bullish"}
        /\ team_consensus.direction = "sell" =>
              \E a \in {"MarketAnalyst", "SentimentAgent"} :
                  team_decisions[a].signal \in {"sell", "bearish"}


\* ------------------------------------------------------------------------
\* Properties of the WeexWebSocket (checked under SpecWeexWs)
\* ------------------------------------------------------------------------
\* C36 (as claimed): across any sequence of opens, closes, errors and
\* reconnects at most one keepalive interval timer and at most one pending
\* reconnect timer exist, and the socket is live only while no reconnect is
\* pending.
C36_OneTimerOfEachKind ==
    /\ wws_timers.ping <= 1
    /\ wws_timers.reconnect <= 1
    /\ wws_timers.reconnect = 1 => wws_ws \notin {"connecting", "open"}

====
